---- MODULE Spec2Model ----
(***************************************************************************)
(* Synaptron inference engine: the orchestration core.                     *)
(*                                                                         *)
(*   ModelCache      (cache.rs)  get / put / evict_lru / clear             *)
(*   BatchProcessor  (batch.rs)  process / process_batch                   *)
(*   ModelGraph      (graph.rs)  add_node / remove_node / execute          *)
(*   InferenceEngine (engine.rs) load_model / infer / batch_infer          *)
(*                                                                         *)
(* Each component has its own specifications (CacheSpec, BatchSpec,        *)
(* GraphSpec for the edits of the graph and ExecuteSpec for execute,       *)
(* EngineSpec); the variables of the other components keep their initial   *)
(* values.                                                                 *)
(***************************************************************************)
EXTENDS Integers, Sequences, FiniteSets, TLC

\* ------------------------------------------------------------------------
\* Bounds of the model
\* ------------------------------------------------------------------------

\* largest configured cache.max_size explored (0..MaxSize)
MaxSize == 2

\* largest small cache.ttl_seconds explored (0..MaxTtl, plus the default)
MaxTtl == 1

\* the clock (seconds since the epoch, relative) runs over 0..MaxTime
MaxTime == 1

\* get stops counting accesses at MaxCount (usize in the source)
MaxCount == 2

\* number of distinct payloads a model file of one path may have
MaxData == 1

\* longest input list handed to process
MaxLen == 4

\* largest configured batch.max_batch_size explored (0..MaxBatch)
MaxBatch == 3

\* input payloads are drawn from 1..MaxVal
MaxVal == 2

\* longest inputs list of a GraphNode
MaxInputs == 2

\* most ids named by the inputs lists of a graph whose lists name the key
\* "input"
MaxEdges == 4

\* the default cache.ttl_seconds of CacheConfig
DefaultTtl == 3600

\* model source paths used as cache keys
Paths == {"a", "b", "c"}

\* ------------------------------------------------------------------------
\* State
\* ------------------------------------------------------------------------

VARIABLES
    config,      \* ModelCache.config : [enabled, max_size, ttl_seconds]
    cache,       \* ModelCache.cache  : path -> CachedModel
    now,         \* SystemTime::now() in seconds
    lastOp,      \* the last ModelCache call, what it found and what it returned
    scen,        \* history: how many calls of the example scenario have run
    cleared      \* history: entries dropped by the last clear() if no put()
                 \* was called since, else -1

cacheVars == <<config, cache, now, lastOp, scen, cleared>>

VARIABLES
    bconfig,     \* BatchProcessor.config : [enabled, max_batch_size]
    inputs,      \* the inputs of the process call
    bpc,         \* where the process call stands
    idx,         \* position of the next input (sequential path) or of the
                 \* first input of the current chunk (batched path)
    inflight,    \* positions whose future was created and has not completed
    slot,        \* join_all: position -> output of its completed future
    results,     \* the local `results` of process
    ret,         \* what process returned
    opLog,       \* history: positions in the order processor was called
    doneLog,     \* history: positions in the order their futures completed
    chunkLog     \* history: the chunks handed to process_batch, in order

batchVars ==
    <<bconfig, inputs, bpc, idx, inflight, slot, results, ret, opLog, doneLog,
      chunkLog>>

VARIABLES
    nodes,            \* ModelGraph.nodes : id -> [model_name, inputs]
    execution_order,  \* ModelGraph.execution_order
    glast             \* the last ModelGraph call, its arguments and result

graphVars == <<nodes, execution_order, glast>>

VARIABLES
    econfig,        \* InferenceEngine.config: device selection and the
                    \* backends the build was compiled with
    live_models,    \* InferenceEngine.models   : name -> Model
    live_backends,  \* InferenceEngine.backends : device -> Backend
    epc,            \* caller -> where its call of the engine stands
    ecall           \* caller -> the locals and the result of its call

engineVars == <<econfig, live_models, live_backends, epc, ecall>>

VARIABLES
    cpc,         \* task -> where its call of the ModelCache stands, when the
                 \* calls are followed statement by statement
    ccall        \* task -> the arguments, locals and result of that call

lockVars == <<cpc, ccall>>

vars == <<cacheVars, batchVars, graphVars, engineVars, lockVars>>

\* What the operations of one component leave unchanged.
exceptCache == <<batchVars, graphVars, engineVars, lockVars>>
exceptBatch == <<cacheVars, graphVars, engineVars, lockVars>>
exceptGraph == <<cacheVars, batchVars, engineVars, lockVars>>
exceptEngine == <<batchVars, graphVars, lockVars>>

\* ------------------------------------------------------------------------
\* ModelCache
\* ------------------------------------------------------------------------

\* The tasks that call the engine, or the cache, concurrently (both are
\* shared through Arc).
Callers == {"c1", "c2"}

\* A Model as far as the cache sees it: its path (the key) and its payload.
Models == [path : Paths, data : 1..MaxData]

\* CacheConfig values explored.
CacheConfigs ==
    [enabled : BOOLEAN,
     max_size : 0..MaxSize,
     ttl_seconds : (0..MaxTtl) \cup {DefaultTtl}]

\* CachedModel { model, timestamp, access_count }
CachedModel(m, ts, n) == [model |-> m, timestamp |-> ts, access_count |-> n]

\* HashMap::len
Len_(c) == Cardinality(DOMAIN c)

\* HashMap::remove
Remove(c, k) == [j \in (DOMAIN c) \ {k} |-> c[j]]

\* HashMap::insert (inserts or overwrites)
Insert(c, k, e) == [j \in (DOMAIN c) \cup {k} |-> IF j = k THEN e ELSE c[j]]

\* The empty HashMap
EmptyMap == [j \in {} |-> 0]

\* What a call leaves in lastOp: the operation, its key, the result
\* ("Some", "None", "Ok") and the model get returned or put was given
\* (Options are sets of at most one element), the entry the call found under its
\* key, and the keys it removed (evict_lru in put, an expired entry in get,
\* every key in clear).
OpRecord(op, key, result, value, old, removed) ==
    [op |-> op, key |-> key, result |-> result, value |-> value,
     old |-> old, removed |-> removed]

\* HashMap::get on the key of the call, as an option
Lookup(c, k) == IF k \in DOMAIN c THEN {c[k]} ELSE {}

\* The example scenario of the documentation: put(a), put(b), get(a), put(c).
Scenario == << <<"put", "a">>, <<"put", "b">>, <<"get", "a">>, <<"put", "c">> >>

\* scen counts the calls made so far while they follow the scenario, and is
\* -1 once a call departs from it.
ScenStep(op, key) ==
    IF scen >= 0 /\ scen < Len(Scenario) /\ Scenario[scen + 1] = <<op, key>>
    THEN scen + 1
    ELSE -1

\* The locals of a call of the cache that is followed statement by
\* statement: the method, its key or its model, the model get found, the
\* result and the value returned and, as history, the outcomes the method has
\* when it runs alone on the map it found (expect) and the map it left.
CacheCall(op, key, model) ==
    [op |-> op, key |-> key, model |-> model, found |-> {}, expect |-> {},
     left |-> EmptyMap, result |-> "", value |-> {}]

NoCacheCall == CacheCall("none", "", {})

\* ModelCache::new: the map is empty and no call was made.
CacheIdle ==
    /\ cache = EmptyMap
    /\ now = 0
    /\ lastOp = OpRecord("new", "", "Ok", {}, {}, {})
    /\ scen = 0
    /\ cleared = -1
    /\ cpc = [t \in Callers |-> "idle"]
    /\ ccall = [t \in Callers |-> NoCacheCall]

CacheInit ==
    /\ config \in CacheConfigs
    /\ CacheIdle

\* get: if !self.config.enabled { return None; }
GetDisabled == ~config.enabled

\* Fault: put does not test config.enabled.
PutDisabledNever == FALSE

\* put: if !self.config.enabled { return Ok(()); }
PutDisabled == ~config.enabled

\* Fault: an entry as old as ttl_seconds is still valid.
FreshUpTo(e) == now - e.timestamp <= config.ttl_seconds

\* The entry is still valid: current_time - timestamp < ttl_seconds.
\* The clock of the model never runs backwards, so the difference is >= 0.
Fresh(e) == now - e.timestamp < config.ttl_seconds

\* Fault: a hit does not count the access.
TouchNoCount(e) == e

\* cached_model.access_count += 1
Touch(e) == [e EXCEPT !.access_count = @ + 1]

\* Fault: an expired entry is reported absent and left in the map.
ExpireKeep(c, k) == c

\* Remove expired entry: cache_guard.remove(model_path)
Expire(c, k) == Remove(c, k)

\* ModelCache::get.  The whole body after the enabled test runs under the
\* write guard of the map, so its effect on the map is one step.
GetOutcome(k) ==
    IF GetDisabled
    THEN [ok |-> TRUE, map |-> cache,
          op |-> OpRecord("get", k, "None", {}, {}, {})]
    ELSE IF k \in DOMAIN cache
         THEN IF Fresh(cache[k])
              THEN [ok |-> cache[k].access_count < MaxCount,
                    map |-> [cache EXCEPT ![k] = Touch(@)],
                    op |-> OpRecord("get", k, "Some",
                                    {cache[k].model}, Lookup(cache, k), {})]
              ELSE [ok |-> TRUE,
                    map |-> Expire(cache, k),
                    op |-> OpRecord("get", k, "None", {},
                                    Lookup(cache, k),
                                    (DOMAIN cache) \ DOMAIN Expire(cache, k))]
         ELSE [ok |-> TRUE, map |-> cache,
               op |-> OpRecord("get", k, "None", {}, {}, {})]

\* A call of get by a user of the cache: lastOp records it.
Get(k) ==
    /\ GetOutcome(k).ok
    /\ cache' = GetOutcome(k).map
    /\ lastOp' = GetOutcome(k).op
    /\ scen' = ScenStep("get", k)
    /\ UNCHANGED <<config, now, cleared>>

\* Fault: max_by_key in place of min_by_key.
MruCandidates(c) ==
    {k \in DOMAIN c : \A j \in DOMAIN c : c[k].access_count >= c[j].access_count}

\* The keys min_by_key may return: an entry of minimal access_count; which
\* one of several depends on the iteration order of the HashMap.
LruCandidates(c) ==
    {k \in DOMAIN c : \A j \in DOMAIN c : c[k].access_count <= c[j].access_count}

\* ModelCache::evict_lru: the maps it may leave, each with the key removed.
\* On an empty map min_by_key yields None and nothing is removed.
EvictLru(c) ==
    IF DOMAIN c = {}
    THEN {[map |-> c, removed |-> {}]}
    ELSE {[map |-> Remove(c, v), removed |-> {v}] : v \in LruCandidates(c)}

\* The test of put that decides whether evict_lru runs.
MustEvict(c) == Len_(c) >= config.max_size

\* Fault: overwriting a key keeps the access counter of the old entry.
NewEntryKeepCount(c, m) ==
    CachedModel(m, now,
                IF m.path \in DOMAIN c THEN c[m.path].access_count ELSE 1)

\* The entry put inserts: fresh timestamp, access_count 1, whatever the
\* map c held under the key.
NewEntry(c, m) == CachedModel(m, now, 1)

\* ModelCache::put, under the write guard of the map.
Put(m) ==
    /\ IF PutDisabled
       THEN /\ cache' = cache
            /\ lastOp' = OpRecord("put", m.path, "Ok", {m}, {}, {})
       ELSE \E o \in (IF MustEvict(cache)
                      THEN EvictLru(cache)
                      ELSE {[map |-> cache, removed |-> {}]}) :
              /\ cache' = Insert(o.map, m.path, NewEntry(cache, m))
              /\ lastOp' = OpRecord("put", m.path, "Ok", {m},
                                    Lookup(cache, m.path), o.removed)
    /\ scen' = ScenStep("put", m.path)
    /\ cleared' = -1
    /\ UNCHANGED <<config, now>>

\* Fault: clear drops the expired entries only.
ClearExpiredOnly(c) == [j \in {k \in DOMAIN c : Fresh(c[k])} |-> c[j]]

\* cache_guard.clear()
ClearMap(c) == EmptyMap

\* ModelCache::clear; it does not test config.enabled.
Clear ==
    /\ cache' = ClearMap(cache)
    /\ lastOp' = OpRecord("clear", "", "Ok", {}, {}, (DOMAIN cache) \ DOMAIN cache')
    /\ scen' = ScenStep("clear", "")
    /\ cleared' = Len_(cache)
    /\ UNCHANGED <<config, now>>

\* The system clock advances by a second.
Tick ==
    /\ now < MaxTime
    /\ now' = now + 1
    /\ UNCHANGED <<config, cache, lastOp, scen, cleared>>

\* What put leaves and returns when it runs alone on the current map.
PutOutcomes(m) ==
    {[map |-> Insert(o.map, m.path, NewEntry(cache, m)),
      result |-> "Ok", value |-> {}] :
        o \in (IF MustEvict(cache)
               THEN EvictLru(cache)
               ELSE {[map |-> cache, removed |-> {}]})}

\* What the method of a call leaves and returns when it runs alone on the
\* current map.
SerialOutcomes(call) ==
    IF call.op = "get"
    THEN {[map |-> GetOutcome(call.key).map,
           result |-> GetOutcome(call.key).op.result,
           value |-> GetOutcome(call.key).op.value]}
    ELSE IF call.op = "put"
         THEN UNION {PutOutcomes(m) : m \in call.model}
         ELSE {[map |-> ClearMap(cache), result |-> "Ok", value |-> {}]}

\* The enabled caches explored: one entry at most, and entries that are
\* expired at once or that stay valid.
LockedConfigs ==
    {c \in CacheConfigs :
        c.enabled /\ c.max_size = 1 /\ c.ttl_seconds \in {0, DefaultTtl}}

\* The calls explored: get of a path, put of a model, clear.
CacheCalls ==
    {CacheCall("get", k, {}) : k \in Paths}
        \cup {CacheCall("put", m.path, {m}) : m \in Models}
        \cup {CacheCall("clear", "", {})}

\* The tasks that hold the guard of self.cache.write().
Holders == {t \in Callers : cpc[t] \in {"held", "touch", "expire", "insert"}}

\* Fault: the lock is taken for reading, which does not exclude other tasks.
LockShared == TRUE

\* RwLock::write completes only while no task holds a guard of the lock.
WriteLockFree == Holders = {}

\* Task t goes on at position `at`.
CacheGoes(t, at, call) ==
    /\ cpc' = [cpc EXCEPT ![t] = at]
    /\ ccall' = [ccall EXCEPT ![t] = call]

\* Task t returns: the guard is dropped.
CacheReturns(t, result, value) ==
    CacheGoes(t, "idle", [ccall[t] EXCEPT !.result = result,
                                          !.value = value,
                                          !.left = cache'])

\* A task calls get, put or clear of an enabled cache: the test of
\* config.enabled falls through and the task asks for the write guard.
LockedCall ==
    /\ config.enabled
    /\ \E t \in Callers, call \in CacheCalls :
          /\ cpc[t] = "idle"
          /\ CacheGoes(t, "wait", call)
    /\ UNCHANGED <<cacheVars, batchVars, graphVars, engineVars>>

\* self.cache.write().await completes.
LockedAcquire ==
    /\ \E t \in Callers :
          /\ cpc[t] = "wait"
          /\ WriteLockFree
          /\ ccall[t].op = "get" => GetOutcome(ccall[t].key).ok
          /\ CacheGoes(t, "held",
                       [ccall[t] EXCEPT !.expect = SerialOutcomes(ccall[t])])
    /\ UNCHANGED <<cacheVars, batchVars, graphVars, engineVars>>

\* get: cache_guard.get_mut(model_path) and the test of the age of the entry.
LockedGetLookup ==
    /\ \E t \in Callers :
          /\ cpc[t] = "held"
          /\ ccall[t].op = "get"
          /\ cache' = cache
          /\ IF ccall[t].key \notin DOMAIN cache
             THEN CacheReturns(t, "None", {})
             ELSE IF Fresh(cache[ccall[t].key])
                  THEN CacheGoes(t, "touch",
                                 [ccall[t] EXCEPT
                                     !.found = {cache[ccall[t].key].model}])
                  ELSE CacheGoes(t, "expire", ccall[t])
    /\ UNCHANGED <<config, now, lastOp, scen, cleared>>
    /\ UNCHANGED <<batchVars, graphVars, engineVars>>

\* get: access_count += 1; return Some(model.clone()).
LockedGetTouch ==
    /\ \E t \in Callers :
          /\ cpc[t] = "touch"
          /\ cache' = IF ccall[t].key \in DOMAIN cache
                      THEN [cache EXCEPT ![ccall[t].key] = Touch(@)]
                      ELSE cache
          /\ CacheReturns(t, "Some", ccall[t].found)
    /\ UNCHANGED <<config, now, lastOp, scen, cleared>>
    /\ UNCHANGED <<batchVars, graphVars, engineVars>>

\* get: cache_guard.remove(model_path); None.
LockedGetExpire ==
    /\ \E t \in Callers :
          /\ cpc[t] = "expire"
          /\ cache' = Expire(cache, ccall[t].key)
          /\ CacheReturns(t, "None", {})
    /\ UNCHANGED <<config, now, lastOp, scen, cleared>>
    /\ UNCHANGED <<batchVars, graphVars, engineVars>>

\* put: if cache_guard.len() >= max_size { evict_lru }.
LockedPutEvict ==
    /\ \E t \in Callers :
          /\ cpc[t] = "held"
          /\ ccall[t].op = "put"
          /\ IF MustEvict(cache)
             THEN \E o \in EvictLru(cache) : cache' = o.map
             ELSE cache' = cache
          /\ CacheGoes(t, "insert", ccall[t])
    /\ UNCHANGED <<config, now, lastOp, scen, cleared>>
    /\ UNCHANGED <<batchVars, graphVars, engineVars>>

\* put: cache_guard.insert(..); Ok(()).
LockedPutInsert ==
    /\ \E t \in Callers :
          /\ cpc[t] = "insert"
          /\ \E m \in ccall[t].model :
                cache' = Insert(cache, m.path, NewEntry(cache, m))
          /\ CacheReturns(t, "Ok", {})
    /\ UNCHANGED <<config, now, lastOp, scen, cleared>>
    /\ UNCHANGED <<batchVars, graphVars, engineVars>>

\* clear: cache_guard.clear(); Ok(()).
LockedClear ==
    /\ \E t \in Callers :
          /\ cpc[t] = "held"
          /\ ccall[t].op = "clear"
          /\ cache' = ClearMap(cache)
          /\ CacheReturns(t, "Ok", {})
    /\ UNCHANGED <<config, now, lastOp, scen, cleared>>
    /\ UNCHANGED <<batchVars, graphVars, engineVars>>

LockedNext ==
    \/ LockedCall
    \/ LockedAcquire
    \/ LockedGetLookup
    \/ LockedGetTouch
    \/ LockedGetExpire
    \/ LockedPutEvict
    \/ LockedPutInsert
    \/ LockedClear

CacheGet == (\E k \in Paths : Get(k)) /\ UNCHANGED exceptCache

CachePut == (\E m \in Models : Put(m)) /\ UNCHANGED exceptCache

CacheClear == Clear /\ UNCHANGED exceptCache

ClockTick == Tick /\ UNCHANGED exceptCache

CacheNext == CacheGet \/ CachePut \/ CacheClear \/ ClockTick

\* ------------------------------------------------------------------------
\* BatchProcessor
\* ------------------------------------------------------------------------

\* BatchConfig values explored.  timeout_ms is not a field of the model:
\* the futures of a chunk complete at arbitrary times, so for any
\* timeout_ms the timer may fire whenever a future is still pending.
BatchConfigs == [enabled : BOOLEAN, max_batch_size : 0..MaxBatch]

\* BatchConfig::default
DefaultBatchConfig == [enabled |-> TRUE, max_batch_size |-> 32]

\* CacheConfig::default
DefaultCacheConfig ==
    [enabled |-> TRUE, max_size |-> 1000, ttl_seconds |-> DefaultTtl]

\* Input lists handed to process.
InputLists == UNION {[1..n -> 1..MaxVal] : n \in 0..MaxLen}

\* Result values
Ok(v) == [tag |-> "Ok", val |-> v]
OpError(i) == [tag |-> "Err", kind |-> "Op", at |-> i]
BatchTimeoutError == [tag |-> "Err", kind |-> "Batch", at |-> 0]
NoValue == [tag |-> "None"]

\* The output the caller's processor yields for input x when it succeeds.
OpResult(x) == <<"out", x>>

\* What the future of position i may complete with.
Outcomes(i) == {Ok(OpResult(inputs[i])), OpError(i)}

\* BatchProcessor::new; no call of process is in progress.
BatchIdle ==
    /\ inputs = << >>
    /\ bpc = "idle"
    /\ idx = 1
    /\ inflight = {}
    /\ slot = EmptyMap
    /\ results = << >>
    /\ ret = NoValue
    /\ opLog = << >>
    /\ doneLog = << >>
    /\ chunkLog = << >>

BatchInit ==
    /\ bconfig \in BatchConfigs
    /\ BatchIdle

\* Fault: the length of the input list is not tested.
SequentialOnlyWhenDisabled(ins) == ~bconfig.enabled

\* if !self.config.enabled || inputs.len() < 2
TakesSequentialPath(ins) == ~bconfig.enabled \/ Len(ins) < 2

\* process is called.  On the batched path inputs.chunks(0) panics.
Call(ins) ==
    /\ bpc = "idle"
    /\ inputs' = ins
    /\ bpc' = IF TakesSequentialPath(ins) THEN "seq_loop"
              ELSE IF bconfig.max_batch_size = 0 THEN "panic"
              ELSE "chunk_loop"
    /\ UNCHANGED <<bconfig, idx, inflight, slot, results, ret, opLog, doneLog, chunkLog>>

\* Sequential path: processor(input) is called on the next input.
SeqInvoke ==
    /\ bpc = "seq_loop"
    /\ idx <= Len(inputs)
    /\ inflight' = {idx}
    /\ opLog' = Append(opLog, idx)
    /\ bpc' = "seq_await"
    /\ UNCHANGED <<bconfig, inputs, idx, slot, results, ret, doneLog, chunkLog>>

\* Fault: a failed item is skipped and the loop goes on.
SeqCompleteSkip ==
    /\ bpc = "seq_await"
    /\ \E o \in Outcomes(idx) :
          results' = IF o.tag = "Ok" THEN Append(results, o.val) ELSE results
    /\ idx' = idx + 1
    /\ bpc' = "seq_loop"
    /\ inflight' = {}
    /\ doneLog' = Append(doneLog, idx)
    /\ UNCHANGED <<bconfig, inputs, slot, ret, opLog, chunkLog>>

\* Sequential path: the awaited future completes; `?` returns its error.
SeqComplete ==
    /\ bpc = "seq_await"
    /\ \E o \in Outcomes(idx) :
          IF o.tag = "Ok"
          THEN /\ results' = Append(results, o.val)
               /\ idx' = idx + 1
               /\ bpc' = "seq_loop"
               /\ ret' = ret
          ELSE /\ ret' = o
               /\ bpc' = "done"
               /\ UNCHANGED <<results, idx>>
    /\ inflight' = {}
    /\ doneLog' = Append(doneLog, idx)
    /\ UNCHANGED <<bconfig, inputs, slot, opLog, chunkLog>>

\* Sequential path: the loop is over, return Ok(results).
SeqReturn ==
    /\ bpc = "seq_loop"
    /\ idx > Len(inputs)
    /\ ret' = Ok(results)
    /\ bpc' = "done"
    /\ UNCHANGED <<bconfig, inputs, idx, inflight, slot, results, opLog, doneLog, chunkLog>>

\* Fault: a chunk takes one input more than max_batch_size.
ChunkOfInclusive(lo) ==
    {i \in 1..Len(inputs) : lo <= i /\ i <= lo + bconfig.max_batch_size}

\* The positions of the chunk that starts at position lo.
ChunkOf(lo) ==
    {i \in 1..Len(inputs) : lo <= i /\ i < lo + bconfig.max_batch_size}

\* The positions of a set in increasing order.
RECURSIVE Ascending(_)
Ascending(S) ==
    IF S = {} THEN << >>
    ELSE LET m == CHOOSE x \in S : \A y \in S : x <= y
         IN  <<m>> \o Ascending(S \ {m})

\* process_batch: processor(input) is called on every input of the chunk,
\* in order, and join_all starts polling the futures under the timeout.
StartChunk ==
    /\ bpc = "chunk_loop"
    /\ idx <= Len(inputs)
    /\ inflight' = ChunkOf(idx)
    /\ slot' = EmptyMap
    /\ opLog' = opLog \o Ascending(ChunkOf(idx))
    /\ chunkLog' = Append(chunkLog, ChunkOf(idx))
    /\ bpc' = "join"
    /\ UNCHANGED <<bconfig, inputs, idx, results, ret, doneLog>>

\* One future of the chunk completes; join_all keeps its output.
Complete(i) ==
    /\ bpc = "join"
    /\ i \in inflight
    /\ \E o \in Outcomes(i) : slot' = Insert(slot, i, o)
    /\ inflight' = inflight \ {i}
    /\ doneLog' = Append(doneLog, i)
    /\ UNCHANGED <<bconfig, inputs, bpc, idx, results, ret, opLog, chunkLog>>

\* Fault: on a timeout process returns what the earlier chunks produced.
BatchTimeoutPartial ==
    /\ bpc = "join"
    /\ inflight # {}
    /\ ret' = Ok(results)
    /\ bpc' = "done"
    /\ inflight' = {}
    /\ UNCHANGED <<bconfig, inputs, idx, slot, results, opLog, doneLog, chunkLog>>

\* The timer fires while a future is pending: process_batch returns the
\* Batch error, `?` in process returns it, the futures are dropped.
BatchTimeout ==
    /\ bpc = "join"
    /\ inflight # {}
    /\ ret' = BatchTimeoutError
    /\ bpc' = "done"
    /\ inflight' = {}
    /\ UNCHANGED <<bconfig, inputs, idx, slot, results, opLog, doneLog, chunkLog>>

\* Fault: the outputs are gathered in the order the futures completed.
JoinCompletionOrder(lo) ==
    [n \in 1..Cardinality(ChunkOf(lo)) |-> slot[doneLog[lo - 1 + n]]]

\* The outputs join_all yields for the chunk that starts at lo: one per
\* future, in the order the futures were given, whatever the order they
\* completed in.
JoinAll(lo) ==
    [n \in 1..Cardinality(ChunkOf(lo)) |-> slot[lo - 1 + n]]

\* The error the collecting loop `processed_results.push(result?)` returns:
\* the first one in the order of the outputs, if any.
FirstError(outs) ==
    LET bad == {n \in 1..Len(outs) : outs[n].tag = "Err"}
    IN  IF bad = {} THEN {}
        ELSE {outs[CHOOSE n \in bad : \A j \in bad : n <= j]}

\* Fault: the error of a chunk is recorded and the loop over the chunks
\* goes on.
CollectContinue ==
    /\ bpc = "join"
    /\ inflight = {}
    /\ LET outs == JoinAll(idx)
           err == FirstError(outs)
       IN  IF err # {}
           THEN /\ ret' \in err
                /\ results' = results
           ELSE /\ results' = results \o [n \in 1..Len(outs) |-> outs[n].val]
                /\ ret' = ret
    /\ idx' = idx + bconfig.max_batch_size
    /\ bpc' = "chunk_loop"
    /\ UNCHANGED <<bconfig, inputs, inflight, slot, opLog, doneLog, chunkLog>>

\* All futures of the chunk completed: process_batch collects the outputs
\* and returns the first error or the outputs, which process appends.
Collect ==
    /\ bpc = "join"
    /\ inflight = {}
    /\ LET outs == JoinAll(idx)
           err == FirstError(outs)
       IN  IF err # {}
           THEN /\ ret' \in err
                /\ bpc' = "done"
                /\ UNCHANGED <<results, idx>>
           ELSE /\ results' = results \o [n \in 1..Len(outs) |-> outs[n].val]
                /\ idx' = idx + bconfig.max_batch_size
                /\ bpc' = "chunk_loop"
                /\ ret' = ret
    /\ UNCHANGED <<bconfig, inputs, inflight, slot, opLog, doneLog, chunkLog>>

\* Batched path: the chunks are over, return Ok(results).
BatchReturn ==
    /\ bpc = "chunk_loop"
    /\ idx > Len(inputs)
    /\ ret' = Ok(results)
    /\ bpc' = "done"
    /\ UNCHANGED <<bconfig, inputs, idx, inflight, slot, results, opLog, doneLog, chunkLog>>

ProcessCall == (\E ins \in InputLists : Call(ins)) /\ UNCHANGED exceptBatch

SeqItemStart == SeqInvoke /\ UNCHANGED exceptBatch

SeqItemDone == SeqComplete /\ UNCHANGED exceptBatch

SeqDone == SeqReturn /\ UNCHANGED exceptBatch

ChunkStart == StartChunk /\ UNCHANGED exceptBatch

CompleteItem == (\E i \in 1..MaxLen : Complete(i)) /\ UNCHANGED exceptBatch

ChunkTimeout == BatchTimeout /\ UNCHANGED exceptBatch

ChunkCollect == Collect /\ UNCHANGED exceptBatch

ChunksDone == BatchReturn /\ UNCHANGED exceptBatch

BatchNext ==
    \/ ProcessCall
    \/ SeqItemStart
    \/ SeqItemDone
    \/ SeqDone
    \/ ChunkStart
    \/ CompleteItem
    \/ ChunkTimeout
    \/ ChunkCollect
    \/ ChunksDone

\* ------------------------------------------------------------------------
\* ModelGraph
\* ------------------------------------------------------------------------

\* Node ids.
NodeIds == {"A", "B", "C"}

\* The model each node names.  The nodes explored name distinct models, so
\* that the model map handed to execute decides for each node separately
\* whether its model is present.
ModelNameOf == [id \in NodeIds |-> CASE id = "A" -> "ma"
                                     [] id = "B" -> "mb"
                                     [] OTHER -> "mc"]

ModelNames == {ModelNameOf[id] : id \in NodeIds}

\* The initial inputs handed to execute: byte payloads, which execute
\* passes on and never inspects.
Payloads == {"p", "q"}

\* The inputs lists explored: ids without repetition, in any order; an id
\* that is no node of the graph is a dangling reference.
IdLists ==
    {q \in UNION {[1..n -> NodeIds] : n \in 0..MaxInputs} :
        \A i, j \in 1..Len(q) : i # j => q[i] # q[j]}

\* GraphNode { id, model_name, inputs, outputs }; `outputs` is read by no
\* method of ModelGraph and is left out.
GraphNodes ==
    {[id |-> id, model_name |-> ModelNameOf[id], inputs |-> q] :
        id \in NodeIds, q \in IdLists}

\* SynaptronError::GraphExecution
GraphError(what, id) ==
    [tag |-> "Err", kind |-> "GraphExecution", what |-> what, at |-> id]

\* What a call leaves in glast: the method, its result and, of execute, the
\* arguments, the intermediate results, the nodes processed, in order, and
\* for each of them the key of the intermediate result it consumed.  Of
\* add_node and remove_node, `processed` holds the ids topological_sort was
\* entered on, in order.
GraphCall(op, result, models, input, outputs, processed, consumed) ==
    [op |-> op, result |-> result, models |-> models,
     input |-> input, outputs |-> outputs, processed |-> processed,
     consumed |-> consumed]

\* The node maps a graph may hold.
NodeMaps ==
    UNION {{[id \in ids |-> [model_name |-> ModelNameOf[id], inputs |-> f[id]]] :
                f \in [ids -> IdLists]} : ids \in SUBSET NodeIds}

\* The ids an inputs list may name when execute runs: node ids and the key
\* "input", under which execute stores the initial input.  To the order
\* computation that key is one more id that is no node.
InputIds == NodeIds \cup {"input"}

ExecuteIdLists ==
    {q \in UNION {[1..n -> InputIds] : n \in 0..MaxInputs} :
        \A i, j \in 1..Len(q) : i # j => q[i] # q[j]}

\* The number of ids the inputs lists f[id] name in all.
References(f) ==
    Cardinality({r \in (DOMAIN f) \X (1..MaxInputs) : r[2] <= Len(f[r[1]])})

\* ModelGraph::new
GraphIdle ==
    /\ nodes = EmptyMap
    /\ execution_order = << >>
    /\ glast = GraphCall("new", Ok("unit"), {}, "", EmptyMap, << >>, << >>)

RECURSIVE TopologicalSort(_, _, _)
RECURSIVE TopologicalSortPreOrder(_, _, _)
RECURSIVE VisitInputs(_, _, _, _)
RECURSIVE VisitInputsUnchecked(_, _, _, _)

\* Fault: the dependencies of a node are not visited.
VisitInputsNone(nd, ins, n, st) == st

\* Fault: an input id is visited whether or not it is a node of the graph.
VisitInputsUnchecked(nd, ins, n, st) ==
    IF n > Len(ins) THEN st
    ELSE VisitInputsUnchecked(nd, ins, n + 1,
            IF ins[n] \notin st.visited
            THEN TopologicalSort(nd, ins[n], st)
            ELSE st)

\* topological_sort, the loop over node.inputs from its n-th element on:
\* an input that is a node and is not yet visited is sorted first.
VisitInputs(nd, ins, n, st) ==
    IF n > Len(ins) THEN st
    ELSE VisitInputs(nd, ins, n + 1,
            IF ins[n] \in DOMAIN nd /\ ins[n] \notin st.visited
            THEN TopologicalSort(nd, ins[n], st)
            ELSE st)

\* Fault: the node is pushed before its dependencies.
TopologicalSortPreOrder(nd, id, st) ==
    LET marked == [visited |-> st.visited \cup {id},
                   order |-> Append(st.order, id),
                   entered |-> Append(st.entered, id)]
    IN  IF id \in DOMAIN nd
        THEN VisitInputs(nd, nd[id].inputs, 1, marked)
        ELSE marked

\* ModelGraph::topological_sort on the state st = [visited, order, entered]:
\* mark the node visited, sort its dependencies, push the node.  `entered`
\* is history: the ids the function was entered on, in order.
TopologicalSort(nd, id, st) ==
    LET marked == [visited |-> st.visited \cup {id}, order |-> st.order,
                   entered |-> Append(st.entered, id)]
        after == IF id \in DOMAIN nd
                 THEN VisitInputs(nd, nd[id].inputs, 1, marked)
                 ELSE marked
    IN  [visited |-> after.visited, order |-> Append(after.order, id),
         entered |-> after.entered]

\* The orders in which `for (node_id, _) in &self.nodes` may yield the keys
\* of the HashMap.
IterationOrders(nd) ==
    {q \in [1..Cardinality(DOMAIN nd) -> DOMAIN nd] :
        \A i, j \in 1..Len(q) : i # j => q[i] # q[j]}

RECURSIVE SortFromAll(_, _, _, _)
RECURSIVE SortFrom(_, _, _, _)

\* Fault: the loop over the nodes sorts a node whether or not it was visited.
SortFromAll(nd, iter, n, st) ==
    IF n > Len(iter) THEN st
    ELSE SortFromAll(nd, iter, n + 1, TopologicalSort(nd, iter[n], st))

\* update_execution_order, the loop over the nodes from the n-th key of the
\* iteration order on.
SortFrom(nd, iter, n, st) ==
    IF n > Len(iter) THEN st
    ELSE SortFrom(nd, iter, n + 1,
            IF iter[n] \notin st.visited
            THEN TopologicalSort(nd, iter[n], st)
            ELSE st)

\* update_execution_order: its runs, one for each iteration order of the
\* node map.
SortRuns(nd) ==
    {SortFrom(nd, iter, 1,
              [visited |-> {}, order |-> << >>, entered |-> << >>]) :
        iter \in IterationOrders(nd)}

\* ModelGraph::update_execution_order: the orders it may store, one for each
\* iteration order of the node map.  It returns Ok(()) on every path.
UpdateExecutionOrder(nd) == {run.order : run \in SortRuns(nd)}

\* ModelGraph::add_node
AddNode(node) ==
    /\ nodes' = Insert(nodes, node.id,
                       [model_name |-> node.model_name, inputs |-> node.inputs])
    /\ \E run \in SortRuns(nodes') :
          /\ execution_order' = run.order
          /\ glast' = GraphCall("add_node", Ok("unit"), {}, "", EmptyMap,
                                run.entered, << >>)

\* ModelGraph::remove_node
RemoveNode(id) ==
    /\ nodes' = Remove(nodes, id)
    /\ \E run \in SortRuns(nodes') :
          /\ execution_order' = run.order
          /\ glast' = GraphCall("remove_node", Ok("unit"), {}, "", EmptyMap,
                                run.entered, << >>)

\* A candidate input: the value, and the key of `outputs` it was read from.
Candidate(outs, key) == [from |-> key, value |-> outs[key]]

\* Fault: a node none of whose declared inputs has a result takes the
\* initial input.
NodeInputsFallback(node, outs) ==
    LET have == {n \in 1..Len(node.inputs) : node.inputs[n] \in DOMAIN outs}
    IN  IF have = {}
        THEN <<Candidate(outs, "input")>>
        ELSE [k \in 1..Cardinality(have) |->
                Candidate(outs, node.inputs[Ascending(have)[k]])]

\* Fault: the candidates are gathered from the last declared input to the
\* first.
NodeInputsReversed(node, outs) ==
    IF node.inputs = << >>
    THEN <<Candidate(outs, "input")>>
    ELSE LET have == {n \in 1..Len(node.inputs) : node.inputs[n] \in DOMAIN outs}
         IN  [k \in 1..Cardinality(have) |->
                Candidate(outs,
                    node.inputs[Ascending(have)[Cardinality(have) + 1 - k]])]

\* execute, the candidate inputs of a node: the initial input if it declares
\* no inputs, else the outputs already produced for its declared inputs, in
\* declaration order.
NodeInputs(node, outs) ==
    IF node.inputs = << >>
    THEN <<Candidate(outs, "input")>>
    ELSE LET have == {n \in 1..Len(node.inputs) : node.inputs[n] \in DOMAIN outs}
         IN  [k \in 1..Cardinality(have) |->
                Candidate(outs, node.inputs[Ascending(have)[k]])]

\* Fault: a node whose model is missing is run all the same.
ExecNodeAnyModel(nd, id, models, st) ==
    LET node_inputs == NodeInputs(nd[id], st.outputs)
    IN  IF node_inputs = << >>
        THEN [st EXCEPT !.error = {GraphError("No input available", id)}]
        ELSE [st EXCEPT !.outputs = Insert(@, id, node_inputs[1].value),
                        !.processed = Append(@, id),
                        !.consumed = Append(@, node_inputs[1].from)]

\* Fault: the node stores what its model makes of the input.
ExecNodeInfers(nd, id, models, st) ==
    LET node_inputs == NodeInputs(nd[id], st.outputs)
    IN  IF node_inputs = << >>
        THEN [st EXCEPT !.error = {GraphError("No input available", id)}]
        ELSE IF nd[id].model_name \in models
             THEN [st EXCEPT !.outputs =
                                 Insert(@, id, <<nd[id].model_name,
                                                 node_inputs[1].value>>),
                             !.processed = Append(@, id),
                             !.consumed = Append(@, node_inputs[1].from)]
             ELSE [st EXCEPT !.error = {GraphError("Model not found", id)}]

\* Fault: a node whose model is missing is skipped.
ExecNodeSkipMissing(nd, id, models, st) ==
    LET node_inputs == NodeInputs(nd[id], st.outputs)
    IN  IF node_inputs = << >>
        THEN [st EXCEPT !.error = {GraphError("No input available", id)}]
        ELSE IF nd[id].model_name \in models
             THEN [st EXCEPT !.outputs = Insert(@, id, node_inputs[1].value),
                             !.processed = Append(@, id),
                             !.consumed = Append(@, node_inputs[1].from)]
             ELSE st

\* execute, the body of the loop for one node on the state
\* st = [outputs, processed, consumed, error]: take the first candidate input, look
\* the model up, store the input as the output of the node.
ExecNode(nd, id, models, st) ==
    LET node_inputs == NodeInputs(nd[id], st.outputs)
    IN  IF node_inputs = << >>
        THEN [st EXCEPT !.error = {GraphError("No input available", id)}]
        ELSE IF nd[id].model_name \in models
             THEN [st EXCEPT !.outputs = Insert(@, id, node_inputs[1].value),
                             !.processed = Append(@, id),
                             !.consumed = Append(@, node_inputs[1].from)]
             ELSE [st EXCEPT !.error = {GraphError("Model not found", id)}]

\* execute, the loop over execution_order from its n-th id on; an error
\* returns at once.  An id of the order that is no node is passed over.
RECURSIVE ExecFrom(_, _, _, _, _)
ExecFrom(nd, order, n, models, st) ==
    IF n > Len(order) \/ st.error # {} THEN st
    ELSE ExecFrom(nd, order, n + 1, models,
            IF order[n] \in DOMAIN nd
            THEN ExecNode(nd, order[n], models, st)
            ELSE st)

\* Fault: a graph without nodes yields the error of a missing output.
FinalResultNoEmpty(order, st) ==
    IF st.error # {} THEN CHOOSE e \in st.error : TRUE
    ELSE IF order # << >> /\ order[Len(order)] \in DOMAIN st.outputs
         THEN Ok(st.outputs[order[Len(order)]])
         ELSE GraphError("No output from graph execution", "")

\* execute, its return value: the error of the loop, else the output of the
\* last node of the order, else (no nodes) the initial input.
FinalResult(order, st) ==
    IF st.error # {} THEN CHOOSE e \in st.error : TRUE
    ELSE IF order # << >>
         THEN IF order[Len(order)] \in DOMAIN st.outputs
              THEN Ok(st.outputs[order[Len(order)]])
              ELSE GraphError("No output from graph execution", "")
         ELSE Ok(st.outputs["input"])

\* ModelGraph::execute(models, initial_input).  The body awaits nothing and
\* borrows the graph, so it is one step; it changes no field of the graph.
Executed(models, initial_input, st) ==
    GraphCall("execute", FinalResult(execution_order, st),
              models, initial_input, st.outputs, st.processed, st.consumed)

Execute(models, initial_input) ==
    /\ glast' = Executed(models, initial_input,
                    ExecFrom(nodes, execution_order, 1, models,
                             [outputs |-> [k \in {"input"} |-> initial_input],
                              processed |-> << >>,
                              consumed |-> << >>,
                              error |-> {}]))
    /\ UNCHANGED <<nodes, execution_order>>

GraphAdd ==
    (\E node \in GraphNodes : AddNode(node)) /\ UNCHANGED exceptGraph

GraphRemove ==
    (\E id \in NodeIds : RemoveNode(id)) /\ UNCHANGED exceptGraph

GraphExecute ==
    /\ glast.op = "new"
    /\ \E models \in SUBSET ModelNames, x \in Payloads : Execute(models, x)
    /\ UNCHANGED exceptGraph

GraphNext == GraphAdd \/ GraphRemove

ExecuteNext == GraphExecute

\* ------------------------------------------------------------------------
\* InferenceEngine
\* ------------------------------------------------------------------------

\* Model.name is the file stem of the path: "a" and "b" are files of the
\* same stem in two directories, "c" has another stem.
NameOf == [p \in Paths |-> IF p = "c" THEN "n" ELSE "m"]

\* The engine configurations explored: DeviceConfig { auto_select,
\* preferred } and the cargo features of the build.
EngineConfigs ==
    [auto_select : BOOLEAN, preferred : {"cuda"},
     features : {{}, {"openvino", "tensorrt"}}]

\* DeviceConfig::default(), in a build without backend features.
DefaultEngineConfig ==
    [auto_select |-> TRUE, preferred |-> "cpu", features |-> {}]

\* SynaptronError of the given kind
EngineError(kind, what) == [tag |-> "Err", kind |-> kind, what |-> what]

\* Fault: the preferred device is used also when auto_select is set.
SelectDevicePreferred(cfg) == cfg.preferred

\* DeviceManager::select_device: with auto_select the availability probes of
\* CUDA and of Intel hardware return false in every build, so "cpu" is
\* chosen; else the preferred device of the configuration.  It never fails.
SelectDevice(cfg) == IF cfg.auto_select THEN "cpu" ELSE cfg.preferred

\* initialize_backend, the arm of the match the device takes in a build
\* with the given features.
BackendKind(device, features) ==
    IF "openvino" \in features /\ device \in {"cpu", "gpu", "vpu"}
    THEN "openvino"
    ELSE IF "tensorrt" \in features /\ device = "cuda"
         THEN "tensorrt"
         ELSE IF device = "cpu" THEN "cpu" ELSE "unsupported"

\* The results of the backend constructors (OpenVINOBackend::new,
\* TensorRTBackend::new, CPUBackend::new): a backend or a failure.
NewBackend(kind) ==
    {Ok(kind), EngineError("BackendInit", "backend construction failed")}

\* InferenceEngine::initialize_backend: its possible results.
InitializeBackend(device, features) ==
    IF BackendKind(device, features) = "unsupported"
    THEN {EngineError("DeviceSelection", "Unsupported device")}
    ELSE NewBackend(BackendKind(device, features))

\* Model::load: the file read, with one of its possible payloads, or a
\* failure (file missing, unreadable, download failed).
LoadResults(path) ==
    {Ok([path |-> path, data |-> d]) : d \in 1..MaxData}
        \cup {EngineError("ModelLoad", "Model file not found")}

\* AutoOptimizer::optimize returns the model as it is and never fails.
Optimize(model, device) == Ok(model)

\* Backend::load_model: the backend accepts the model or refuses it.
AcceptResults == {Ok("unit"), EngineError("Backend", "load_model failed")}

\* Backend::infer: an output or a failure.
InferResults == {Ok("out"), EngineError("Backend", "infer failed")}

\* The locals of a call: its method and argument, the model, the device and
\* the backend it holds, the results of the backend's infer, the result
\* returned and, as history, the steps it took in order.
EngineCall(op, arg, model, device, backend, bres, result, steps) ==
    [op |-> op, arg |-> arg, model |-> model, device |-> device,
     backend |-> backend, bres |-> bres, result |-> result, steps |-> steps]

NoCall == EngineCall("none", "", {}, "", {}, << >>, NoValue, << >>)

\* InferenceEngine::new: both live tables are empty.
EngineIdle ==
    /\ live_models = EmptyMap
    /\ live_backends = EmptyMap
    /\ epc = [c \in Callers |-> "idle"]
    /\ ecall = [c \in Callers |-> NoCall]

\* Fault: infer keeps its read guard of the model table when it returns.
ModelsReadersKept ==
    {c \in Callers : ecall[c].op = "infer" /\ Len(ecall[c].steps) >= 1
                                           /\ ecall[c].model # {}}

\* The callers that hold the read guard of the model table (infer keeps it
\* until it returns) and of the backend table.
ModelsReaders == {c \in Callers : epc[c] \in {"backends", "infer"}}
BackendsReaders == {c \in Callers : epc[c] = "infer"}

\* Caller c takes the step named `step` and goes on at position `at`.
Goes(c, at, step, call) ==
    /\ epc' = [epc EXCEPT ![c] = at]
    /\ ecall' = [ecall EXCEPT ![c] = [call EXCEPT !.steps = Append(@, step)]]

\* Caller c takes the step named `step` and returns `result`.
Returns(c, step, call, result) ==
    Goes(c, "idle", step, [call EXCEPT !.result = result])

\* A caller calls load_model(path).
StartLoad(c, path) ==
    /\ epc[c] = "idle"
    /\ epc' = [epc EXCEPT ![c] = "cache"]
    /\ ecall' = [ecall EXCEPT ![c] =
                    EngineCall("load_model", path, {}, "", {}, << >>, NoValue,
                               << >>)]
    /\ UNCHANGED <<live_models, live_backends>>

\* load_model: self.model_cache.get(model_path).await; the call keeps what
\* get returned.
LoadCache(c) ==
    /\ epc[c] = "cache"
    /\ GetOutcome(ecall[c].arg).ok
    /\ cache' = GetOutcome(ecall[c].arg).map
    /\ IF GetOutcome(ecall[c].arg).op.result = "Some"
       THEN Goes(c, "hit", "cache_hit",
                 [ecall[c] EXCEPT !.model = GetOutcome(ecall[c].arg).op.value])
       ELSE Goes(c, "load", "cache_miss", ecall[c])
    /\ UNCHANGED <<live_models, live_backends>>

\* Fault: the hit path lacks its return and goes on to load from the source.
LoadHitContinue(c) ==
    /\ epc[c] = "hit"
    /\ ModelsReaders = {}
    /\ \E m \in ecall[c].model :
          live_models' = Insert(live_models, NameOf[m.path], m)
    /\ Goes(c, "load", "install_model", ecall[c])
    /\ UNCHANGED live_backends

\* load_model, the hit path: the cached model is inserted under the write
\* guard of the model table, and Ok(()) is returned.
LoadHit(c) ==
    /\ epc[c] = "hit"
    /\ ModelsReaders = {}
    /\ \E m \in ecall[c].model :
          live_models' = Insert(live_models, NameOf[m.path], m)
    /\ Returns(c, "install_model", ecall[c], Ok("unit"))
    /\ UNCHANGED live_backends

\* load_model, the miss path from Model::load to the call of
\* backend.load_model: none of select_device, initialize_backend and
\* optimize suspends.  `?` returns the first failure.
LoadSource(c) ==
    /\ epc[c] = "load"
    /\ \E loaded \in LoadResults(ecall[c].arg) :
         IF loaded.tag = "Err"
         THEN Returns(c, "load", ecall[c], loaded)
         ELSE LET device == SelectDevice(econfig)
                  selected == [ecall[c] EXCEPT
                                  !.model = {loaded.val},
                                  !.device = device,
                                  !.steps = @ \o <<"load", "select_device">>]
              IN  \E built \in InitializeBackend(device, econfig.features) :
                    IF built.tag = "Err"
                    THEN Returns(c, "initialize_backend", selected, built)
                    ELSE Goes(c, "accept", "optimize",
                              [selected EXCEPT
                                  !.model = {Optimize(loaded.val, device).val},
                                  !.backend = {built.val},
                                  !.steps = Append(@, "initialize_backend")])
    /\ UNCHANGED <<live_models, live_backends>>

\* Fault: the model is inserted before the backend is asked to take it.
LoadAcceptInstalls(c) ==
    /\ epc[c] = "accept"
    /\ \E m \in ecall[c].model :
          live_models' = Insert(live_models, NameOf[m.path], m)
    /\ \E accepted \in AcceptResults :
         IF accepted.tag = "Err"
         THEN Returns(c, "backend_load_model", ecall[c], accepted)
         ELSE Goes(c, "install_model", "backend_load_model", ecall[c])
    /\ UNCHANGED live_backends

\* load_model: backend.load_model(&optimized_model).await?
LoadAccept(c) ==
    /\ epc[c] = "accept"
    /\ \E accepted \in AcceptResults :
         IF accepted.tag = "Err"
         THEN Returns(c, "backend_load_model", ecall[c], accepted)
         ELSE Goes(c, "install_model", "backend_load_model", ecall[c])
    /\ UNCHANGED <<live_models, live_backends>>

\* Fault: the first critical section inserts the backend, not the model.
LoadInstallBackendFirst(c) ==
    /\ epc[c] = "install_model"
    /\ BackendsReaders = {}
    /\ \E b \in ecall[c].backend :
          live_backends' = Insert(live_backends, ecall[c].device, b)
    /\ Goes(c, "install_backend", "install_model", ecall[c])
    /\ UNCHANGED live_models

\* Fault: the model table is replaced by one that holds the new model only.
LoadInstallModelOnly(c) ==
    /\ epc[c] = "install_model"
    /\ ModelsReaders = {}
    /\ \E m \in ecall[c].model :
          live_models' = Insert(EmptyMap, NameOf[m.path], m)
    /\ Goes(c, "install_backend", "install_model", ecall[c])
    /\ UNCHANGED live_backends

\* load_model: the model is inserted under the write guard of the model
\* table, which waits for the readers of the table.
LoadInstallModel(c) ==
    /\ epc[c] = "install_model"
    /\ ModelsReaders = {}
    /\ \E m \in ecall[c].model :
          live_models' = Insert(live_models, NameOf[m.path], m)
    /\ Goes(c, "install_backend", "install_model", ecall[c])
    /\ UNCHANGED live_backends

\* Fault: the backend is stored under its kind, not under the device.
LoadInstallBackendKind(c) ==
    /\ epc[c] = "install_backend"
    /\ BackendsReaders = {}
    /\ \E b \in ecall[c].backend :
          live_backends' = Insert(live_backends, b, b)
    /\ Returns(c, "install_backend", ecall[c], Ok("unit"))
    /\ UNCHANGED live_models

\* load_model: the backend is inserted under the write guard of the backend
\* table; Ok(()) is returned.
LoadInstallBackend(c) ==
    /\ epc[c] = "install_backend"
    /\ BackendsReaders = {}
    /\ \E b \in ecall[c].backend :
          live_backends' = Insert(live_backends, ecall[c].device, b)
    /\ Returns(c, "install_backend", ecall[c], Ok("unit"))
    /\ UNCHANGED live_models

\* A caller calls infer(input).
StartInfer(c, x) ==
    /\ epc[c] = "idle"
    /\ epc' = [epc EXCEPT ![c] = "models"]
    /\ ecall' = [ecall EXCEPT ![c] =
                    EngineCall("infer", x, {}, "", {}, << >>, NoValue, << >>)]
    /\ UNCHANGED <<live_models, live_backends>>

\* infer: the read guard of the model table is taken and the first model
\* of the map is looked for; without one the Inference error is returned.
InferModels(c) ==
    /\ epc[c] = "models"
    /\ IF live_models = EmptyMap
       THEN Returns(c, "models", ecall[c],
                    EngineError("Inference", "No model loaded"))
       ELSE \E name \in DOMAIN live_models :
              Goes(c, "backends", "models",
                   [ecall[c] EXCEPT !.model = {live_models[name]}])
    /\ UNCHANGED <<live_models, live_backends>>

\* infer: the read guard of the backend table is taken and the first
\* backend of the map is looked for; without one the Inference error is
\* returned, else backend.infer(input) is called.
InferBackends(c) ==
    /\ epc[c] = "backends"
    /\ IF live_backends = EmptyMap
       THEN Returns(c, "backends", ecall[c],
                    EngineError("Inference", "No backend available"))
       ELSE \E device \in DOMAIN live_backends :
              Goes(c, "infer", "backend_infer",
                   [ecall[c] EXCEPT !.device = device,
                                    !.backend = {live_backends[device]}])
    /\ UNCHANGED <<live_models, live_backends>>

\* Fault: a failed backend call is made once more.
InferDoneRetry(c) ==
    /\ epc[c] = "infer"
    /\ \E r \in InferResults :
         IF r.tag = "Err" /\ Len(ecall[c].bres) < 2
         THEN Goes(c, "infer", "backend_infer",
                   [ecall[c] EXCEPT !.bres = Append(@, r)])
         ELSE Returns(c, "return", [ecall[c] EXCEPT !.bres = Append(@, r)], r)
    /\ UNCHANGED <<live_models, live_backends>>

\* Fault: a failure of the backend is reported as an Inference error.
InferDoneWrap(c) ==
    /\ epc[c] = "infer"
    /\ \E r \in InferResults :
         Returns(c, "return", [ecall[c] EXCEPT !.bres = Append(@, r)],
                 IF r.tag = "Err"
                 THEN EngineError("Inference", "backend failed")
                 ELSE r)
    /\ UNCHANGED <<live_models, live_backends>>

\* infer: backend.infer(input).await? completes; its output or its failure
\* is returned, and both read guards are dropped.
InferDone(c) ==
    /\ epc[c] = "infer"
    /\ \E r \in InferResults :
         Returns(c, "return", [ecall[c] EXCEPT !.bres = Append(@, r)], r)
    /\ UNCHANGED <<live_models, live_backends>>

\* batch_infer(inputs): process with the operator that returns its input.
\* With the default batch configuration every item is ready when it is
\* first polled, so the call returns the inputs; it reads neither table.
BatchInfer(c, ins) ==
    /\ epc[c] = "idle"
    /\ epc' = epc
    /\ ecall' = [ecall EXCEPT ![c] =
                    EngineCall("batch_infer", ins, {}, "", {}, << >>, Ok(ins),
                               <<"process">>)]
    /\ UNCHANGED <<live_models, live_backends>>

EngineLoadModel ==
    /\ \E c \in Callers, path \in Paths : StartLoad(c, path)
    /\ UNCHANGED <<econfig, cacheVars, exceptEngine>>

EngineLoadCache ==
    /\ \E c \in Callers : LoadCache(c)
    /\ UNCHANGED <<config, now, lastOp, scen, cleared, econfig, exceptEngine>>

EngineLoadHit ==
    /\ \E c \in Callers : LoadHit(c)
    /\ UNCHANGED <<econfig, cacheVars, exceptEngine>>

EngineLoadSource ==
    /\ \E c \in Callers : LoadSource(c)
    /\ UNCHANGED <<econfig, cacheVars, exceptEngine>>

EngineLoadAccept ==
    /\ \E c \in Callers : LoadAccept(c)
    /\ UNCHANGED <<econfig, cacheVars, exceptEngine>>

EngineInstallModel ==
    /\ \E c \in Callers : LoadInstallModel(c)
    /\ UNCHANGED <<econfig, cacheVars, exceptEngine>>

\* Fault: the miss path ends with a put of the loaded model into the cache.
EngineInstallBackendPuts ==
    /\ \E c \in Callers :
          /\ LoadInstallBackend(c)
          /\ \E m \in ecall[c].model : Put(m)
    /\ UNCHANGED <<econfig, exceptEngine>>

EngineInstallBackend ==
    /\ \E c \in Callers : LoadInstallBackend(c)
    /\ UNCHANGED <<econfig, cacheVars, exceptEngine>>

EngineInfer ==
    /\ \E c \in Callers, x \in Payloads : StartInfer(c, x)
    /\ UNCHANGED <<econfig, cacheVars, exceptEngine>>

EngineInferModels ==
    /\ \E c \in Callers : InferModels(c)
    /\ UNCHANGED <<econfig, cacheVars, exceptEngine>>

EngineInferBackends ==
    /\ \E c \in Callers : InferBackends(c)
    /\ UNCHANGED <<econfig, cacheVars, exceptEngine>>

EngineInferDone ==
    /\ \E c \in Callers : InferDone(c)
    /\ UNCHANGED <<econfig, cacheVars, exceptEngine>>

EngineBatchInfer ==
    /\ \E c \in Callers : BatchInfer(c, <<1, 2>>)
    /\ UNCHANGED <<econfig, cacheVars, exceptEngine>>

EngineNext ==
    \/ EngineLoadModel
    \/ EngineLoadCache
    \/ EngineLoadSource
    \/ EngineLoadAccept
    \/ EngineInstallModel
    \/ EngineInstallBackend
    \/ EngineInfer
    \/ EngineInferModels
    \/ EngineInferBackends
    \/ EngineInferDone
    \/ EngineBatchInfer

\* load_model on an engine whose model cache is filled by ModelCache::put
\* between the calls of one task.  InferenceEngine itself never calls put on
\* its cache.
CachedLoadModel ==
    /\ \E path \in Paths : StartLoad("c1", path)
    /\ UNCHANGED <<econfig, cacheVars, exceptEngine>>

CachedLoadPut ==
    /\ \A c \in Callers : epc[c] = "idle"
    /\ \E m \in Models : Put(m)
    /\ UNCHANGED exceptCache

CachedLoadNext ==
    \/ CachedLoadModel
    \/ EngineLoadCache
    \/ EngineLoadHit
    \/ EngineLoadSource
    \/ EngineLoadAccept
    \/ EngineInstallModel
    \/ EngineInstallBackend
    \/ CachedLoadPut

\* One task that loads a model, calls infer and, once the backend has failed
\* an infer call of it, calls process on the batch processor.
CoreLoadModel ==
    /\ bpc = "idle"
    /\ StartLoad("c1", "a")
    /\ UNCHANGED <<econfig, cacheVars, exceptEngine>>

CoreInfer ==
    /\ bpc = "idle"
    /\ StartInfer("c1", "p")
    /\ UNCHANGED <<econfig, cacheVars, exceptEngine>>

CoreProcess ==
    /\ epc["c1"] = "idle"
    /\ ecall["c1"].op = "infer"
    /\ ecall["c1"].result \in InferResults
    /\ ecall["c1"].result.tag = "Err"
    /\ \E ins \in InputLists : Call(ins)
    /\ UNCHANGED exceptBatch

CoreNext ==
    \/ CoreLoadModel
    \/ EngineLoadCache
    \/ EngineLoadSource
    \/ EngineLoadAccept
    \/ EngineInstallModel
    \/ EngineInstallBackend
    \/ CoreInfer
    \/ EngineInferModels
    \/ EngineInferBackends
    \/ EngineInferDone
    \/ CoreProcess
    \/ SeqItemStart
    \/ SeqItemDone
    \/ SeqDone
    \/ ChunkStart
    \/ CompleteItem
    \/ ChunkTimeout
    \/ ChunkCollect
    \/ ChunksDone

\* ------------------------------------------------------------------------
\* Specifications
\* ------------------------------------------------------------------------

\* The cache alone; the batch processor has its default configuration and
\* is never called.
CacheSpecInit ==
    /\ CacheInit
    /\ bconfig = DefaultBatchConfig
    /\ BatchIdle
    /\ GraphIdle
    /\ econfig = DefaultEngineConfig
    /\ EngineIdle

CacheSpec == CacheSpecInit /\ [][CacheNext]_vars

\* One process call on a batch processor; the cache is freshly constructed
\* with its default configuration and is never called.
BatchSpecInit ==
    /\ BatchInit
    /\ config = DefaultCacheConfig
    /\ CacheIdle
    /\ GraphIdle
    /\ econfig = DefaultEngineConfig
    /\ EngineIdle

BatchSpec == BatchSpecInit /\ [][BatchNext]_vars

\* A model graph that is edited by add_node and remove_node; the cache and
\* the batch processor have their default configuration and are never
\* called.
GraphSpecInit ==
    /\ GraphIdle
    /\ config = DefaultCacheConfig
    /\ CacheIdle
    /\ bconfig = DefaultBatchConfig
    /\ BatchIdle
    /\ econfig = DefaultEngineConfig
    /\ EngineIdle

GraphSpec == GraphSpecInit /\ [][GraphNext]_vars

\* The graphs execute may be called on: any node map, with an order that
\* the last add_node or remove_node stored for it (of a new graph, the
\* empty order).  One call of execute is explored on each of them, with
\* every model map and payload: execute borrows the graph and leaves it as
\* it is, so a further call starts from the same graph.
\* The maps explored: every map whose inputs lists name node ids only, and
\* the maps whose lists also name the key "input" and name at most MaxEdges
\* ids in all.
GraphBuilt ==
    /\ \E ids \in SUBSET NodeIds : \E f \in [ids -> ExecuteIdLists] :
          /\ \/ \A id \in ids : \A n \in 1..Len(f[id]) : f[id][n] \in NodeIds
             \/ References(f) <= MaxEdges
          /\ nodes = [id \in ids |->
                        [model_name |-> ModelNameOf[id], inputs |-> f[id]]]
    /\ execution_order \in UpdateExecutionOrder(nodes)
    /\ glast = GraphCall("new", Ok("unit"), {}, "", EmptyMap, << >>, << >>)

ExecuteSpecInit ==
    /\ GraphBuilt
    /\ config = DefaultCacheConfig
    /\ CacheIdle
    /\ bconfig = DefaultBatchConfig
    /\ BatchIdle
    /\ econfig = DefaultEngineConfig
    /\ EngineIdle

ExecuteSpec == ExecuteSpecInit /\ [][ExecuteNext]_vars

\* An engine called by the tasks of Callers.  Nothing in the repository
\* calls ModelCache::put on the cache of an engine, so the lookup of
\* load_model misses and EngineLoadHit is no step of this specification.
EngineSpecInit ==
    /\ econfig \in EngineConfigs
    /\ EngineIdle
    /\ config = DefaultCacheConfig
    /\ CacheIdle
    /\ bconfig = DefaultBatchConfig
    /\ BatchIdle
    /\ GraphIdle

EngineSpec == EngineSpecInit /\ [][EngineNext]_vars

\* A batch processor that is enabled and cuts its inputs into chunks of two.
ChunksOfTwo == [enabled |-> TRUE, max_batch_size |-> 2]

\* The enabled cache, called by concurrent tasks whose calls are followed
\* statement by statement.
LockedSpecInit ==
    /\ config \in LockedConfigs
    /\ CacheIdle
    /\ bconfig = DefaultBatchConfig
    /\ BatchIdle
    /\ GraphIdle
    /\ econfig = DefaultEngineConfig
    /\ EngineIdle

LockedSpec == LockedSpecInit /\ [][LockedNext]_vars

\* The engine and the batch processor, used by one task.
CoreSpecInit ==
    /\ econfig = DefaultEngineConfig
    /\ EngineIdle
    /\ config = DefaultCacheConfig
    /\ CacheIdle
    /\ bconfig = ChunksOfTwo
    /\ BatchIdle
    /\ GraphIdle

CoreSpec == CoreSpecInit /\ [][CoreNext]_vars

\* The engine with a warm cache: load_model calls and puts into the cache.
CachedLoadSpecInit ==
    /\ econfig = DefaultEngineConfig
    /\ EngineIdle
    /\ config = DefaultCacheConfig
    /\ CacheIdle
    /\ bconfig = DefaultBatchConfig
    /\ BatchIdle
    /\ GraphIdle

CachedLoadSpec == CachedLoadSpecInit /\ [][CachedLoadNext]_vars

\* The steps of the call of caller c that wait for no guard of a live table:
\* the cache lookup, the returns of the collaborators (Model::load, the
\* backend constructors, Backend::load_model, Backend::infer) and the read
\* guards of infer, which no writer holds between two steps.
Proceeds(c) ==
    \/ /\ LoadCache(c)
       /\ UNCHANGED <<config, now, lastOp, scen, cleared, econfig, exceptEngine>>
    \/ /\ \/ LoadSource(c)
          \/ LoadAccept(c)
          \/ InferModels(c)
          \/ InferBackends(c)
          \/ InferDone(c)
       /\ UNCHANGED <<econfig, cacheVars, exceptEngine>>

\* The steps of the call of caller c that take a write guard of a live
\* table and so wait for its readers.
Acquires(c) ==
    /\ LoadInstallModel(c) \/ LoadInstallBackend(c)
    /\ UNCHANGED <<econfig, cacheVars, exceptEngine>>

\* The scheduling of the tasks: the runtime polls every task that can go on,
\* the collaborators return, and the RwLock of the runtime hands its guards
\* out in the order of the requests, so that a writer that waits while the
\* guard becomes free again and again gets it.
EngineFairness ==
    \A c \in Callers : WF_vars(Proceeds(c)) /\ SF_vars(Acquires(c))

\* An engine with the default configuration, called by concurrent tasks under
\* the scheduling above.
EngineFairSpec == CachedLoadSpecInit /\ [][EngineNext]_vars /\ EngineFairness

\* ------------------------------------------------------------------------
\* Properties of ModelCache (checked under CacheSpec)
\* ------------------------------------------------------------------------

\* C1: on an enabled cache the number of entries never exceeds max_size,
\* for every configured max_size and after any sequence of put, get and
\* clear calls.
C1_SizeNeverExceedsMax ==
    config.enabled => Len_(cache) <= config.max_size

\* C2: put evicts only when the map size has reached max_size before the
\* insert, and then removes exactly one entry, one whose access counter is
\* the lowest of all entries present; below max_size it removes nothing.
C2_EvictsExactlyOneLowest ==
    [][\A m \in Models :
         (config.enabled /\ lastOp'.key = m.path /\ Put(m)) =>
            IF Len_(cache) >= config.max_size
            THEN \E v \in DOMAIN cache :
                    /\ lastOp'.removed = {v}
                    /\ \A j \in DOMAIN cache :
                          cache[v].access_count <= cache[j].access_count
                    /\ (DOMAIN cache) \ {v, m.path} \subseteq DOMAIN cache'
            ELSE /\ lastOp'.removed = {}
                 /\ DOMAIN cache \subseteq DOMAIN cache']_vars

\* C3: with enabled = false every get returns nothing, every put returns Ok
\* and the map stays empty after any sequence of calls.
C3_DisabledIsNoOp ==
    ~config.enabled =>
        /\ cache = EmptyMap
        /\ lastOp.op = "get" => (lastOp.result = "None" /\ lastOp.value = {})
        /\ lastOp.op = "put" => lastOp.result = "Ok"

C3_Witness ==
    /\ ~config.enabled
    /\ lastOp.op = "put"
    /\ scen = -1

\* C4: a get on an entry whose age exceeds ttl_seconds returns nothing and
\* removes that entry and no other; the key then stays absent, and a get on
\* it returns nothing, until a put on that key.
C4_ExpiredGetRemoves ==
    [][\A k \in Paths :
         /\ ( /\ config.enabled
              /\ k \in DOMAIN cache
              /\ now - cache[k].timestamp > config.ttl_seconds
              /\ lastOp'.key = k
              /\ Get(k) )
            => /\ lastOp'.result = "None"
               /\ lastOp'.value = {}
               /\ DOMAIN cache' = (DOMAIN cache) \ {k}
               /\ \A j \in DOMAIN cache' : cache'[j] = cache[j]
         /\ (k \notin DOMAIN cache /\ lastOp'.key = k /\ Get(k))
            => (lastOp'.result = "None" /\ k \notin DOMAIN cache')
         /\ (k \notin DOMAIN cache /\ k \in DOMAIN cache')
            => (lastOp'.op = "put" /\ lastOp'.key = k)]_vars

C4_Witness ==
    /\ lastOp.op = "get"
    /\ lastOp.result = "None"
    /\ \E e \in lastOp.old : now - e.timestamp > config.ttl_seconds
    /\ lastOp.key \notin DOMAIN cache
    /\ cache # EmptyMap

\* C5: on an enabled cache, get on a present entry younger than ttl_seconds
\* returns its model and adds exactly 1 to its access counter, leaving its
\* timestamp and every other entry as they were; get on an absent key
\* returns nothing and leaves the cache as it was.
C5_GetHitCountsOnce ==
    [][\A k \in Paths :
         (config.enabled /\ lastOp'.key = k /\ Get(k)) =>
            IF k \in DOMAIN cache
            THEN (now - cache[k].timestamp < config.ttl_seconds) =>
                    /\ lastOp'.result = "Some"
                    /\ lastOp'.value = {cache[k].model}
                    /\ DOMAIN cache' = DOMAIN cache
                    /\ cache'[k].access_count = cache[k].access_count + 1
                    /\ cache'[k].timestamp = cache[k].timestamp
                    /\ cache'[k].model = cache[k].model
                    /\ \A j \in (DOMAIN cache) \ {k} : cache'[j] = cache[j]
            ELSE /\ lastOp'.result = "None"
                 /\ lastOp'.value = {}
                 /\ cache' = cache]_vars

C5_Witness ==
    /\ config.enabled
    /\ lastOp.op = "get"
    /\ lastOp.result = "Some"
    /\ Len_(cache) >= 2
    /\ cache[lastOp.key].timestamp < now
    /\ cache[lastOp.key].access_count >= 2

\* C6: with max_size = 2 and ttl_seconds = 3600, put(a), put(b), get(a),
\* put(c) evicts b at the last put and leaves exactly a with access counter
\* 2 and c with access counter 1.
C6_Scenario ==
    ( /\ config.enabled
      /\ config.max_size = 2
      /\ config.ttl_seconds = DefaultTtl
      /\ scen = Len(Scenario) )
    => /\ lastOp.removed = {"b"}
       /\ DOMAIN cache = {"a", "c"}
       /\ cache["a"].access_count = 2
       /\ cache["c"].access_count = 1

C6_Witness ==
    /\ config.enabled
    /\ config.max_size = 2
    /\ config.ttl_seconds = DefaultTtl
    /\ scen = Len(Scenario)
    /\ lastOp.op = "put"
    /\ lastOp.key = "c"

\* C7: after every put(model) on an enabled cache the map holds, under the
\* model's path, an entry with access counter 1 and the time of the put as
\* timestamp, also when the key was present before.
C7_PutInsertsFreshEntry ==
    [][\A m \in Models :
         (config.enabled /\ lastOp'.key = m.path /\ Put(m)) =>
            /\ m.path \in DOMAIN cache'
            /\ cache'[m.path].model = m
            /\ cache'[m.path].access_count = 1
            /\ cache'[m.path].timestamp = now]_vars

C7_Witness ==
    /\ config.enabled
    /\ lastOp.op = "put"
    /\ \E e \in lastOp.old : e.access_count > 1 /\ e.timestamp < now
    /\ cache[lastOp.key].access_count = 1
    /\ cache[lastOp.key].timestamp = now

\* C8: clear leaves the map empty whatever it held and whatever the
\* configuration, and returns Ok; every get after it and before the next
\* put returns nothing.
C8_ClearEmpties ==
    cleared >= 0 =>
        /\ cache = EmptyMap
        /\ lastOp.op \in {"clear", "get"}
        /\ lastOp.op = "clear" => lastOp.result = "Ok"
        /\ lastOp.op = "get" => (lastOp.result = "None" /\ lastOp.value = {})

C8_Witness ==
    /\ cleared >= 2
    /\ lastOp.op = "get"
    /\ lastOp.result = "None"
    /\ config.enabled
    /\ config.ttl_seconds > now

\* ------------------------------------------------------------------------
\* Properties of BatchProcessor (checked under BatchSpec)
\* ------------------------------------------------------------------------

\* C9: with batching enabled and at least 2 inputs, whenever process
\* succeeds its output is as long as the input and position i holds the
\* operator's result for input i, for every max_batch_size and every order
\* in which the items of a chunk complete.
C9_BatchedOutputInInputOrder ==
    (bconfig.enabled /\ Len(inputs) >= 2 /\ ret.tag = "Ok") =>
        /\ Len(ret.val) = Len(inputs)
        /\ \A i \in 1..Len(inputs) : ret.val[i] = OpResult(inputs[i])

C9_Witness ==
    /\ bconfig.enabled
    /\ ret.tag = "Ok"
    /\ bconfig.max_batch_size >= 2
    /\ Len(inputs) > bconfig.max_batch_size
    /\ \E i, j \in 1..Len(inputs) : inputs[i] # inputs[j]
    /\ \E i, j \in 1..Len(doneLog) : i < j /\ doneLog[i] > doneLog[j]

\* C10: when batching is disabled or there are fewer than 2 inputs, process
\* applies the operator to the inputs one at a time in input order, never
\* has two items in flight, applies no timeout, and its output is the
\* sequential application of the operator in input order.
C10_SequentialPath ==
    (bpc # "idle" /\ (~bconfig.enabled \/ Len(inputs) < 2)) =>
        /\ Cardinality(inflight) <= 1
        /\ opLog = [n \in 1..Len(opLog) |-> n]
        /\ doneLog = [n \in 1..Len(doneLog) |-> n]
        /\ Len(opLog) <= Len(doneLog) + 1
        /\ ~ENABLED BatchTimeout
        /\ ret # BatchTimeoutError
        /\ results = [n \in 1..Len(results) |-> OpResult(inputs[n])]
        /\ ret.tag = "Ok" =>
              /\ ret.val = [n \in 1..Len(inputs) |-> OpResult(inputs[n])]
              /\ opLog = [n \in 1..Len(inputs) |-> n]

C10_Witness ==
    /\ ~bconfig.enabled
    /\ bconfig.max_batch_size >= 2
    /\ Len(inputs) >= 3
    /\ \E i, j \in 1..Len(inputs) : inputs[i] # inputs[j]
    /\ ret.tag = "Ok"

\* The elements of a sequence.
Range(q) == {q[n] : n \in 1..Len(q)}

\* C11: in the batched path, if an item of a chunk has not completed when
\* the chunk's timeout elapses, process returns the Batch timeout error and
\* no results: neither the completed items of the chunk nor the results of
\* earlier chunks.
C11_TimeoutReturnsNoResults ==
    [][(bpc = "join" /\ inflight # {} /\ bpc' # "join") =>
          /\ bpc' = "done"
          /\ ret' = BatchTimeoutError
          /\ ret'.tag = "Err"
          /\ DOMAIN ret' = {"tag", "kind", "at"}]_vars

C11_Witness ==
    /\ bpc = "done"
    /\ ret = BatchTimeoutError
    /\ results # << >>
    /\ slot # EmptyMap
    /\ \E i \in DOMAIN slot : slot[i].tag = "Ok"

\* C12: in the batched path, once a chunk fails (an item failed or the
\* timeout elapsed), no item of a later chunk is ever passed to the operator
\* and process returns the failure, not the results of earlier chunks.
C12_FailFast ==
    ( /\ bconfig.enabled
      /\ Len(inputs) >= 2
      /\ \/ ret.tag = "Err"
         \/ (bpc = "join" /\ \E i \in DOMAIN slot : slot[i].tag = "Err") )
    => /\ \A n \in 1..Len(opLog) : opLog[n] < idx + bconfig.max_batch_size
       /\ ~ENABLED StartChunk
       /\ ret.tag # "Ok"
       /\ bpc \in {"join", "done"}
       /\ bpc = "done" => ret.tag = "Err"

C12_Witness ==
    /\ bconfig.enabled
    /\ bpc = "done"
    /\ ret.tag = "Err"
    /\ ret.kind = "Op"
    /\ results # << >>
    /\ idx + bconfig.max_batch_size <= Len(inputs)

\* C13: in the batched path the inputs are split into contiguous chunks of
\* at most max_batch_size inputs, all but the last of exactly
\* max_batch_size, covering every input once; a chunk starts only when
\* every item of the chunk before it has completed, and at most
\* max_batch_size items are in flight.
C13_ChunksPartitionAndSerial ==
    (bconfig.enabled /\ Len(inputs) >= 2) =>
        LET size == bconfig.max_batch_size
            count == Len(chunkLog)
        IN  /\ \A n \in 1..count :
                  /\ chunkLog[n] # {}
                  /\ chunkLog[n] =
                        {i \in 1..Len(inputs) : (n - 1) * size < i /\ i <= n * size}
                  /\ n < count => chunkLog[n] \subseteq Range(doneLog)
            /\ opLog = [n \in 1..Len(opLog) |-> n]
            /\ Range(opLog) = UNION {chunkLog[n] : n \in 1..count}
            /\ ret.tag = "Ok" => Range(opLog) = 1..Len(inputs)
            /\ Cardinality(inflight) <= size
            /\ count > 0 => inflight \subseteq chunkLog[count]

C13_Witness ==
    /\ bconfig.enabled
    /\ ret.tag = "Ok"
    /\ Len(chunkLog) >= 2
    /\ Cardinality(chunkLog[Len(chunkLog)]) < bconfig.max_batch_size

\* C14: process on an empty input list returns an empty result and never
\* calls the operator, whether batching is enabled or not.
C14_EmptyInput ==
    (bpc # "idle" /\ inputs = << >>) =>
        /\ bpc # "panic"
        /\ opLog = << >>
        /\ inflight = {}
        /\ bpc = "done" => ret = Ok(<< >>)
        /\ bpc # "done" => ENABLED (SeqReturn \/ BatchReturn)

C14_Witness ==
    /\ bconfig.enabled
    /\ bconfig.max_batch_size = 0
    /\ inputs = << >>
    /\ bpc = "done"
    /\ ret = Ok(<< >>)

\* ------------------------------------------------------------------------
\* ModelGraph: the execution order
\* ------------------------------------------------------------------------

\* The three-node chain: A has no inputs, B reads A, C reads B.
ChainGraph ==
    [id \in NodeIds |->
        [model_name |-> ModelNameOf[id],
         inputs |-> CASE id = "A" -> << >>
                      [] id = "B" -> <<"A">>
                      [] OTHER -> <<"B">>]]

\* The inputs of node n that are nodes of the graph.
Deps(nd, n) == Range(nd[n].inputs) \cap DOMAIN nd

\* The nodes reached from the set S along inputs in at most k steps.
RECURSIVE ReachedFrom(_, _, _)
ReachedFrom(nd, S, k) ==
    IF k = 0 THEN S
    ELSE ReachedFrom(nd, S \cup UNION {Deps(nd, n) : n \in S}, k - 1)

\* No node depends on itself, directly or through other nodes.
Acyclic(nd) ==
    \A n \in DOMAIN nd :
        n \notin ReachedFrom(nd, Deps(nd, n), Cardinality(DOMAIN nd))

\* C15: when the graph holds the chain A, B reads A, C reads B, whatever
\* calls built it and whatever the iteration order of the node map, the
\* stored execution order is exactly A, B, C.
C15_ChainOrder ==
    nodes = ChainGraph => execution_order = <<"A", "B", "C">>

C15_Witness ==
    /\ nodes = ChainGraph
    /\ glast.op = "add_node"
    /\ execution_order = <<"A", "B", "C">>

\* C16: an add_node that leaves the two-node cycle (A reads B, B reads A)
\* in the graph returns a graph error.
C16_CycleRejected ==
    (/\ glast.op = "add_node"
     /\ {"A", "B"} \subseteq DOMAIN nodes
     /\ nodes["A"].inputs = <<"B">>
     /\ nodes["B"].inputs = <<"A">>)
    => glast.result.tag = "Err"

\* C17: whenever the node set is acyclic, the stored order is a topological
\* order: every input of a node that is itself a node comes before it.
C17_TopologicalOrder ==
    Acyclic(nodes) =>
        \A n \in DOMAIN nodes : \A d \in Deps(nodes, n) :
            \E i, j \in 1..Len(execution_order) :
                /\ i < j
                /\ execution_order[i] = d
                /\ execution_order[j] = n

C17_Witness ==
    /\ Acyclic(nodes)
    /\ DOMAIN nodes = NodeIds
    /\ \E n \in NodeIds : Cardinality(Deps(nodes, n)) = 2
    /\ glast.op \in {"add_node", "remove_node"}

\* C18: the stored order lists every id of the node set exactly once and
\* nothing else; an id that only occurs as a dangling input is not in it.
C18_OrderIsThePermutation ==
    /\ Len(execution_order) = Cardinality(DOMAIN nodes)
    /\ Range(execution_order) = DOMAIN nodes

C18_Witness ==
    /\ glast.op = "remove_node"
    /\ Len(execution_order) = 2
    /\ \E n \in DOMAIN nodes : Range(nodes[n].inputs) \ DOMAIN nodes # {}
    /\ ~Acyclic(nodes)

\* ------------------------------------------------------------------------
\* ModelGraph: execute
\* ------------------------------------------------------------------------

\* C19: execute on a graph without nodes returns the initial input as it
\* is, for every initial input and every model map; it never fails.
C19_EmptyGraphReturnsInput ==
    (glast.op = "execute" /\ nodes = EmptyMap) =>
        /\ glast.result = Ok(glast.input)
        /\ glast.processed = << >>

C19_Witness ==
    /\ glast.op = "execute"
    /\ nodes = EmptyMap
    /\ glast.models = {}
    /\ glast.input = "q"
    /\ glast.result = Ok("q")

\* C20: when execute succeeds on a graph with nodes, it returns the
\* intermediate result stored for the last node of the execution order, and
\* the nodes processed are those of the order, each once, in that order.
C20_SuccessReturnsLastOutput ==
    (glast.op = "execute" /\ glast.result.tag = "Ok" /\ nodes # EmptyMap) =>
        /\ execution_order # << >>
        /\ execution_order[Len(execution_order)] \in DOMAIN glast.outputs
        /\ glast.result.val =
               glast.outputs[execution_order[Len(execution_order)]]
        /\ glast.processed = execution_order

C20_Witness ==
    /\ glast.op = "execute"
    /\ glast.result = Ok(glast.input)
    /\ DOMAIN nodes = NodeIds
    /\ glast.processed = execution_order
    /\ DOMAIN glast.outputs = NodeIds \cup {"input"}
    /\ \E n \in NodeIds : Cardinality(Deps(nodes, n)) = 2

\* The keys that have an intermediate result when the k-th processed node
\* is reached: "input" and the nodes processed before it.
AvailableAt(k) ==
    {"input"} \cup {glast.processed[j] : j \in 1..(k - 1)}

\* Node n is reached: every node before it in the order was processed.
Reached(n) ==
    \E i \in 1..Len(execution_order) :
        /\ execution_order[i] = n
        /\ \A j \in 1..(i - 1) : execution_order[j] \in Range(glast.processed)

\* C21: if some node of the graph names a model that is not in the model
\* map handed to execute, execute returns a GraphExecution error, which
\* carries no intermediate result, also after earlier nodes were processed.
C21_MissingModelFails ==
    (/\ glast.op = "execute"
     /\ \E n \in DOMAIN nodes : nodes[n].model_name \notin glast.models)
    => /\ glast.result.tag = "Err"
       /\ glast.result.kind = "GraphExecution"
       /\ DOMAIN glast.result = {"tag", "kind", "what", "at"}

C21_Witness ==
    /\ glast.op = "execute"
    /\ glast.result.tag = "Err"
    /\ glast.result.what = "Model not found"
    /\ Len(glast.processed) = 2
    /\ nodes[glast.result.at].model_name \notin glast.models
    /\ glast.models # {}

\* C22: a node with a non-empty inputs list none of whose ids has an
\* intermediate result is never processed and makes execute return a
\* GraphExecution error, the missing-input error of that node if it is
\* reached; a node with an empty inputs list never gets that error.
C22_NoInputFails ==
    glast.op = "execute" =>
        /\ \A n \in DOMAIN nodes :
             (/\ nodes[n].inputs # << >>
              /\ Range(nodes[n].inputs) \cap DOMAIN glast.outputs = {})
             => /\ glast.result.tag = "Err"
                /\ glast.result.kind = "GraphExecution"
                /\ n \notin Range(glast.processed)
                /\ Reached(n) =>
                     glast.result = GraphError("No input available", n)
        /\ (glast.result.tag = "Err" /\ glast.result.what = "No input available")
           => /\ glast.result.at \in DOMAIN nodes
              /\ nodes[glast.result.at].inputs # << >>

C22_Witness ==
    /\ glast.op = "execute"
    /\ glast.result.tag = "Err"
    /\ glast.result.what = "No input available"
    /\ glast.processed # << >>
    /\ Range(nodes[glast.result.at].inputs) \cap (DOMAIN nodes \cup {"input"}) = {}

\* C30: every processed node consumes one value: a node without declared
\* inputs the initial input, any other node the result of the first id of
\* its inputs list, in declaration order, that has a result when the node is
\* reached; ids before it have none, ids after it are not looked at.
C30_FirstAvailableInput ==
    glast.op = "execute" =>
        /\ Len(glast.consumed) = Len(glast.processed)
        /\ \A k \in 1..Len(glast.processed) :
             LET ins == nodes[glast.processed[k]].inputs
             IN  /\ glast.outputs[glast.processed[k]] = glast.input
                 /\ ins = << >> => glast.consumed[k] = "input"
                 /\ ins # << >> =>
                      \E i \in 1..Len(ins) :
                          /\ glast.consumed[k] = ins[i]
                          /\ ins[i] \in AvailableAt(k)
                          /\ \A j \in 1..(i - 1) : ins[j] \notin AvailableAt(k)

C30_Witness ==
    /\ glast.op = "execute"
    /\ glast.result.tag = "Ok"
    /\ \E k \in 1..Len(glast.processed) :
         LET ins == nodes[glast.processed[k]].inputs
         IN  /\ Len(ins) = 2
             /\ ins[1] \notin AvailableAt(k)
             /\ glast.consumed[k] = ins[2]
    /\ \E k \in 1..Len(glast.processed) :
         LET ins == nodes[glast.processed[k]].inputs
         IN  /\ Len(ins) = 2
             /\ glast.consumed[k] = ins[1]
             /\ ins[2] \in AvailableAt(k)

\* ------------------------------------------------------------------------
\* Claims about the engine
\* ------------------------------------------------------------------------

\* The steps of a load_model call on the miss path when every step succeeds.
MissSteps ==
    <<"cache_miss", "load", "select_device", "initialize_backend", "optimize",
      "backend_load_model", "install_model", "install_backend">>

\* The name under which the model of call c is installed.
LoadedName(c) == NameOf[ecall[c].arg]

\* Call c takes the step that installs its model / returns from the miss path.
InstallsModel(c) == epc[c] = "install_model" /\ epc'[c] = "install_backend"
ReturnsFromMiss(c) == epc[c] = "install_backend" /\ epc'[c] = "idle"

\* C23 as stated: when load_model returns from the miss path, the model
\* table holds the optimized model of the call under its name and the
\* backend table a backend under the selected device, and the steps ran in
\* the order load, select device, build backend, optimize, hand over,
\* install.
C23_OnReturnHoldsOptimized ==
    [][\A c \in Callers :
          ReturnsFromMiss(c) =>
              /\ ecall'[c].result = Ok("unit")
              /\ ecall'[c].steps = MissSteps
              /\ LoadedName(c) \in DOMAIN live_models'
              /\ live_models'[LoadedName(c)] \in ecall[c].model
              /\ ecall[c].device \in DOMAIN live_backends'
              /\ live_backends'[ecall[c].device] \in ecall[c].backend]_vars

\* C23, amended: the install step of the miss path puts the optimized model
\* of the call under its name; when the call returns, the steps ran in the
\* stated order, the backend table holds the call's backend under the
\* selected device, and the model table holds a model under the name, which
\* a concurrent load_model of the same name may have replaced meanwhile.
C23_MissPathInstalls ==
    [][\A c \in Callers :
          /\ InstallsModel(c) =>
                /\ LoadedName(c) \in DOMAIN live_models'
                /\ live_models'[LoadedName(c)] \in ecall[c].model
                /\ ecall[c].model = {Optimize(m, ecall[c].device).val :
                                        m \in ecall[c].model}
          /\ ReturnsFromMiss(c) =>
                /\ ecall'[c].result = Ok("unit")
                /\ ecall'[c].steps = MissSteps
                /\ LoadedName(c) \in DOMAIN live_models'
                /\ ecall[c].device = SelectDevice(econfig)
                /\ ecall[c].device \in DOMAIN live_backends'
                /\ live_backends'[ecall[c].device] \in ecall[c].backend]_vars

\* A call returned from the miss path while the model under its name is that
\* of another call.
C23_Witness ==
    \E c \in Callers :
        /\ epc[c] = "idle"
        /\ ecall[c].op = "load_model"
        /\ ecall[c].steps = MissSteps
        /\ ecall[c].result = Ok("unit")
        /\ live_models[LoadedName(c)] \notin ecall[c].model

\* The steps of a load_model call on the hit path.
HitSteps == <<"cache_hit", "install_model">>

\* C24: when ModelCache.get(path) returns a model, load_model takes the hit
\* path with that model, and the hit path inserts it into the live model
\* table under its name and returns Ok: it neither loads from the source nor
\* selects a device nor builds a backend, and the live backend table is as
\* it was.
C24_HitInstallsCached ==
    [][\A c \in Callers :
          /\ (epc[c] = "cache" /\ epc'[c] # "cache") =>
                IF GetOutcome(ecall[c].arg).op.result = "Some"
                THEN /\ epc'[c] = "hit"
                     /\ ecall'[c].model = GetOutcome(ecall[c].arg).op.value
                     /\ Cardinality(ecall'[c].model) = 1
                ELSE epc'[c] = "load"
          /\ (epc[c] = "hit" /\ epc'[c] # "hit") =>
                /\ epc'[c] = "idle"
                /\ ecall'[c].result = Ok("unit")
                /\ ecall'[c].steps = HitSteps
                /\ ecall'[c].device = ""
                /\ ecall'[c].backend = {}
                /\ \E m \in ecall[c].model :
                      live_models' = Insert(live_models, NameOf[m.path], m)
                /\ live_backends' = live_backends]_vars

\* A call returned from the hit path, its model in the live table, while no
\* backend was ever installed.
C24_Witness ==
    \E c \in Callers :
        /\ epc[c] = "idle"
        /\ ecall[c].op = "load_model"
        /\ ecall[c].steps = HitSteps
        /\ ecall[c].result = Ok("unit")
        /\ live_models[LoadedName(c)] \in ecall[c].model
        /\ live_backends = EmptyMap

\* The values of a table.
Values(f) == {f[k] : k \in DOMAIN f}

\* Caller c, inside infer, takes a step.
InferSteps(c) == ecall'[c].op = "infer" /\ epc'[c] # epc[c]

\* C25: infer returns an Inference error, having called no backend, when it
\* finds the live model table empty or the live backend table empty;
\* otherwise it calls the infer of one backend of the table, once, with the
\* input it was given, and returns the backend's output or error as it is.
\* No step of infer changes a live table.
C25_InferDelegates ==
    [][\A c \in Callers :
          InferSteps(c) =>
              /\ live_models' = live_models
              /\ live_backends' = live_backends
              /\ epc[c] = "models" =>
                    IF live_models = EmptyMap
                    THEN /\ epc'[c] = "idle"
                         /\ ecall'[c].result.tag = "Err"
                         /\ ecall'[c].result.kind = "Inference"
                         /\ ecall'[c].bres = << >>
                    ELSE epc'[c] = "backends"
              /\ epc[c] = "backends" =>
                    IF live_backends = EmptyMap
                    THEN /\ epc'[c] = "idle"
                         /\ ecall'[c].result.tag = "Err"
                         /\ ecall'[c].result.kind = "Inference"
                         /\ ecall'[c].bres = << >>
                    ELSE /\ epc'[c] = "infer"
                         /\ ecall'[c].bres = << >>
                         /\ ecall'[c].backend \subseteq Values(live_backends)
                         /\ Cardinality(ecall'[c].backend) = 1
              /\ epc[c] = "infer" =>
                    /\ epc'[c] = "idle"
                    /\ ecall'[c].arg = ecall[c].arg
                    /\ ecall'[c].backend = ecall[c].backend
                    /\ Len(ecall'[c].bres) = 1
                    /\ ecall'[c].bres[1] \in InferResults
                    /\ ecall'[c].result = ecall'[c].bres[1]]_vars

\* An infer call returned the failure of the backend as it is.
C25_Witness ==
    \E c \in Callers :
        /\ epc[c] = "idle"
        /\ ecall[c].op = "infer"
        /\ ecall[c].bres = <<EngineError("Backend", "infer failed")>>
        /\ ecall[c].result = EngineError("Backend", "infer failed")
        /\ live_models # EmptyMap
        /\ live_backends # EmptyMap

\* No element occurs twice in the sequence.
NoRepeat(q) == \A i, j \in 1..Len(q) : i # j => q[i] # q[j]

\* C26: nothing is tried again.  An infer call calls the backend at most
\* once and returns what that one call gave, a failure included; a process
\* call calls the operator at most once per input position, also when an
\* item fails or a chunk times out, and then returns that one failure with
\* no future left running.
C26_NoRetries ==
    /\ \A c \in Callers :
          ecall[c].op = "infer" =>
              /\ Len(ecall[c].bres) <= 1
              /\ Cardinality({n \in 1..Len(ecall[c].steps) :
                                 ecall[c].steps[n] = "backend_infer"}) <= 1
              /\ (epc[c] = "idle" /\ ecall[c].bres # << >>) =>
                    ecall[c].result = ecall[c].bres[1]
              /\ epc[c] = "idle" => ecall[c].result # NoValue
    /\ NoRepeat(opLog)
    /\ NoRepeat(doneLog)
    /\ Range(opLog) \subseteq 1..Len(inputs)
    /\ Range(doneLog) \subseteq Range(opLog)
    /\ (bpc = "done" /\ ret.tag = "Err") =>
          /\ inflight = {}
          /\ \/ ret = BatchTimeoutError
             \/ \E i \in Range(doneLog) : ret \in Outcomes(i)

\* The backend failed the infer call, which called it once, and the process
\* call that followed ended in a timeout of its second chunk.
C26_Witness ==
    /\ epc["c1"] = "idle"
    /\ ecall["c1"].op = "infer"
    /\ ecall["c1"].bres = <<EngineError("Backend", "infer failed")>>
    /\ ecall["c1"].result = EngineError("Backend", "infer failed")
    /\ bpc = "done"
    /\ ret = BatchTimeoutError
    /\ Len(chunkLog) = 2
    /\ NoRepeat(opLog)

\* C27: no step of load_model, infer or batch_infer removes a key of the
\* live model table or of the live backend table; only the value under a key
\* may change.
C27_KeysOnlyGrow ==
    [][/\ DOMAIN live_models \subseteq DOMAIN live_models'
       /\ DOMAIN live_backends \subseteq DOMAIN live_backends']_vars

\* Two names are in the model table, the model under one of them is not the
\* one a returned load_model call installed there, and infer and batch_infer
\* calls have returned.
C27_Witness ==
    /\ DOMAIN live_models = {"m", "n"}
    /\ DOMAIN live_backends # {}
    /\ ecall["c1"].op = "load_model"
    /\ ecall["c1"].steps = MissSteps
    /\ epc["c1"] = "idle"
    /\ live_models[LoadedName("c1")].path # ecall["c1"].arg
    /\ ecall["c2"].op \in {"infer", "batch_infer"}
    /\ epc["c2"] = "idle"

\* The positions of the current chunk whose transform completed with a
\* failure.
FailedItems == {i \in DOMAIN slot : slot[i].tag = "Err"}

\* C29: on the batched path, when the transform of an item of a chunk has
\* failed, process returns the failure of such an item, whatever the other
\* items of the chunk do, a timeout included; when all items of the chunk
\* completed it is the failure of the failed item of lowest position.
C29_ItemFailureReturned ==
    (bpc = "done" /\ chunkLog # << >> /\ FailedItems # {}) =>
        /\ ret \in {slot[i] : i \in FailedItems}
        /\ DOMAIN slot = chunkLog[Len(chunkLog)] =>
              ret = slot[CHOOSE i \in FailedItems :
                             \A j \in FailedItems : i <= j]

\* C28: the calls of an enabled cache exclude each other.  At most one task
\* is between taking and dropping the write guard, so no two calls (of get
\* in particular) overlap, and every call that returned left the map and
\* returned the value that the method yields when it runs alone on the map
\* it found when it took the guard: the calls take effect one after the
\* other, in the order they took the guard.
C28_CacheCallsSerial ==
    /\ Cardinality(Holders) <= 1
    /\ \A t \in Callers :
          (cpc[t] = "idle" /\ ccall[t].op # "none") =>
              [map |-> ccall[t].left, result |-> ccall[t].result,
               value |-> ccall[t].value] \in ccall[t].expect

\* A get has found a valid entry and not yet counted the access while
\* another task waits for the guard to put a model under the same path.
C28_Witness ==
    /\ cpc["c1"] = "touch"
    /\ ccall["c1"].op = "get"
    /\ ccall["c1"].found # {}
    /\ cpc["c2"] = "wait"
    /\ ccall["c2"].op = "put"
    /\ ccall["c2"].key = ccall["c1"].key
    /\ Holders = {"c1"}

\* ------------------------------------------------------------------------
\* Further claims
\* ------------------------------------------------------------------------

\* C38: on the sequential path every completed item either added its result
\* or ended the call; when the operator fails on input i, process returns
\* that failure at once: the operator was called on the inputs 1..i only
\* and is not called again, and the value returned is the failure alone,
\* without the i - 1 results computed before it.
C38_SequentialFailure ==
    (bpc # "idle" /\ TakesSequentialPath(inputs)) =>
        /\ ret.tag # "Err" => Len(results) = Len(doneLog)
        /\ ret.tag = "Err" =>
              LET i == Len(opLog)
              IN  /\ bpc = "done"
                  /\ i >= 1
                  /\ ret = OpError(i)
                  /\ opLog = [n \in 1..i |-> n]
                  /\ doneLog = opLog
                  /\ inflight = {}
                  /\ Len(results) = i - 1
                  /\ DOMAIN ret = {"tag", "kind", "at"}
                  /\ ~ENABLED SeqInvoke
                  /\ ~ENABLED SeqReturn

\* The operator failed on the second of at least three inputs.
C38_Witness ==
    /\ TakesSequentialPath(inputs)
    /\ Len(inputs) >= 3
    /\ bpc = "done"
    /\ ret = OpError(2)
    /\ Len(results) = 1
    /\ opLog = <<1, 2>>

\* C37: whenever execute succeeds it returns the initial input, whatever the
\* graph and the model map, and every intermediate result it stored is the
\* initial input.
C37_ExecuteReturnsInput ==
    glast.op = "execute" =>
        /\ \A k \in DOMAIN glast.outputs : glast.outputs[k] = glast.input
        /\ glast.result.tag = "Ok" => glast.result.val = glast.input

\* A successful run in which the last node of the order took the result of
\* another node, not the entry of the initial input.
C37_Witness ==
    /\ glast.op = "execute"
    /\ glast.result = Ok("q")
    /\ glast.input = "q"
    /\ Len(glast.processed) >= 2
    /\ glast.consumed[Len(glast.consumed)] \in NodeIds

\* C36: on an enabled cache, the get of a path whose model was put by the
\* call before it (clock ticks apart, no other call of the cache) finds the
\* entry of that model; with ttl_seconds > 0 and less than ttl_seconds
\* passed since the put it returns that model and keeps the entry, for every
\* max_size and whatever the cache held before; with ttl_seconds = 0 it
\* returns nothing and removes the entry.
C36_PutGetRoundTrip ==
    [][(/\ lastOp.op = "put"
        /\ lastOp'.op = "get"
        /\ lastOp'.key = lastOp.key
        /\ config.enabled)
       => /\ lastOp.key \in DOMAIN cache
          /\ {cache[lastOp.key].model} = lastOp.value
          /\ cache[lastOp.key].timestamp <= now
          /\ (config.ttl_seconds > 0
                /\ now - cache[lastOp.key].timestamp < config.ttl_seconds)
             => /\ lastOp'.result = "Some"
                /\ lastOp'.value = lastOp.value
                /\ lastOp.key \in DOMAIN cache'
                /\ cache'[lastOp.key].model \in lastOp.value
          /\ config.ttl_seconds = 0
             => /\ lastOp'.result = "None"
                /\ lastOp'.value = {}
                /\ lastOp.key \notin DOMAIN cache'
                /\ lastOp'.removed = {lastOp.key}]_vars

\* On a cache of max_size 0, a get returned the model of the only entry one
\* tick after the put of it: the first hit since that put.
C36_Witness ==
    /\ config.enabled
    /\ config.max_size = 0
    /\ config.ttl_seconds > 1
    /\ lastOp.op = "get"
    /\ lastOp.result = "Some"
    /\ lastOp.key \in DOMAIN cache
    /\ cache[lastOp.key].access_count = 2
    /\ cache[lastOp.key].timestamp < now
    /\ lastOp.value = {cache[lastOp.key].model}


\* C31: the order computation run by add_node and remove_node terminates on
\* every finite node set, cycles and self-loops included: the call returns Ok
\* and topological_sort was entered exactly once on each node of the graph,
\* each entry pushing one id.
C31_SortEntersOncePerNode ==
    glast.op \in {"add_node", "remove_node"} =>
        /\ glast.result = Ok("unit")
        /\ NoRepeat(glast.processed)
        /\ {glast.processed[i] : i \in DOMAIN glast.processed} = DOMAIN nodes
        /\ Len(execution_order) = Len(glast.processed)

\* add_node has just sorted a graph with a self-loop and a longer cycle.
C31_Witness ==
    /\ glast.op = "add_node"
    /\ Len(glast.processed) = 3
    /\ \E a \in DOMAIN nodes : a \in Range(nodes[a].inputs)
    /\ \E a, b \in DOMAIN nodes :
          a # b /\ a \in Range(nodes[b].inputs) /\ b \in Range(nodes[a].inputs)


\* C35: no operation of the engine puts into its ModelCache: in every state
\* the cache is empty, every lookup of load_model misses (no call is on the
\* hit path or has taken it), and every load_model that returned Ok ran the
\* whole miss path, whatever was loaded before.
C35_CacheStaysEmpty ==
    /\ cache = EmptyMap
    /\ \A c \in Callers :
          /\ epc[c] # "hit"
          /\ ecall[c].op = "load_model" =>
                /\ \A n \in 1..Len(ecall[c].steps) :
                      ecall[c].steps[n] # "cache_hit"
                /\ ecall[c].steps # << >> => ecall[c].steps[1] = "cache_miss"
                /\ ecall[c].result = Ok("unit") => ecall[c].steps = MissSteps

\* The same path was loaded twice, each call on the whole miss path, with an
\* enabled cache.
C35_Witness ==
    /\ config.enabled /\ config.max_size > 0
    /\ \E path \in Paths :
          /\ NameOf[path] \in DOMAIN live_models
          /\ live_models[NameOf[path]].path = path
          /\ \A c \in Callers :
                /\ epc[c] = "idle"
                /\ ecall[c].op = "load_model"
                /\ ecall[c].arg = path
                /\ ecall[c].result = Ok("unit")
                /\ ecall[c].steps = MissSteps


\* The steps of load_model that write a live table.
InstallSteps == {"install_model", "install_backend"}

\* The last step a call has taken.
LastStep(call) == call.steps[Len(call.steps)]

\* Caller c takes a step of a load_model call it has begun.
LoadSteps(c) ==
    /\ ecall'[c] # ecall[c]
    /\ ecall'[c].op = "load_model"
    /\ ecall'[c].steps # << >>

\* C32: a load_model call that fails on the miss path has modified neither
\* live table nor the cache: every step of a load_model call other than its
\* two installs leaves the model table, the backend table and the cache as
\* they are, and a call that returns a failure has taken no install step
\* (it failed at Model::load, at the construction of the backend or at
\* Backend::load_model).
C32_FailedLoadChangesNothing ==
    [][\A c \in Callers :
          LoadSteps(c) =>
              /\ LastStep(ecall'[c]) \notin InstallSteps =>
                    /\ live_models' = live_models
                    /\ live_backends' = live_backends
                    /\ cache' = cache
              /\ ecall'[c].result.tag = "Err" =>
                    /\ Range(ecall'[c].steps) \cap InstallSteps = {}
                    /\ ecall'[c].steps[1] = "cache_miss"
                    /\ LastStep(ecall'[c]) \in
                          {"load", "initialize_backend", "backend_load_model"}
                    /\ live_models' = live_models
                    /\ live_backends' = live_backends
                    /\ cache' = cache]_vars

\* Both tables are filled, and the last load_model of one caller failed at
\* Model::load, that of the other at Backend::load_model.
C32_Witness ==
    /\ live_models # EmptyMap
    /\ live_backends # EmptyMap
    /\ \A c \in Callers :
          /\ epc[c] = "idle"
          /\ ecall[c].op = "load_model"
          /\ ecall[c].result.tag = "Err"
    /\ LastStep(ecall["c1"]) = "load"
    /\ LastStep(ecall["c2"]) = "backend_load_model"


\* What infer returns when the backend table is empty.
NoBackend == EngineError("Inference", "No backend available")

\* C33: the miss path of load_model inserts the model in one critical
\* section and the backend in a later one.  So the backend table is never
\* filled while the model table is empty; whenever the model table is filled
\* and the backend table is empty, a load_model call stands between its two
\* inserts, and its remaining step inserts the backend and returns Ok; and
\* an infer call that returned 'No backend available' found a filled model
\* table.
C33_ModelBeforeBackend ==
    /\ live_backends # EmptyMap => live_models # EmptyMap
    /\ (live_models # EmptyMap /\ live_backends = EmptyMap) =>
          \E c \in Callers :
              /\ epc[c] = "install_backend"
              /\ ecall[c].steps = SubSeq(MissSteps, 1, 7)
              /\ LoadedName(c) \in DOMAIN live_models
              /\ ecall[c].backend # {}
    /\ \A c \in Callers :
          (ecall[c].op = "infer" /\ ecall[c].result = NoBackend) =>
              /\ ecall[c].steps = <<"models", "backends">>
              /\ ecall[c].model # {}
              /\ live_models # EmptyMap

\* The model table is filled, the backend table is empty, an infer call has
\* just failed with 'No backend available', and the load_model call of the
\* other caller can take its last step, the insert of the backend.
C33_Witness ==
    /\ live_models # EmptyMap
    /\ live_backends = EmptyMap
    /\ epc["c1"] = "install_backend"
    /\ ENABLED LoadInstallBackend("c1")
    /\ epc["c2"] = "idle"
    /\ ecall["c2"].op = "infer"
    /\ ecall["c2"].result = NoBackend
    /\ ecall["c2"].model = {live_models[LoadedName("c1")]}


\* Caller c waits for the write guard of a table that other callers read.
Waits(c) ==
    \/ epc[c] = "install_model" /\ ModelsReaders # {}
    \/ epc[c] = "install_backend" /\ BackendsReaders # {}

\* The callers whose guard caller c waits for.
WaitsFor(c) ==
    IF epc[c] = "install_model" THEN ModelsReaders
    ELSE IF epc[c] = "install_backend" THEN BackendsReaders
    ELSE {}

\* C34: concurrent load_model and infer calls do not deadlock.  A call in
\* progress that cannot take its next step is a load_model that waits for
\* the write guard of one table; it holds no guard then (no reader set
\* contains it), and the callers it waits for are infer calls that took the
\* model guard before the backend guard and can take their next step.  And
\* every call in progress returns, the collaborators returning.
C34_NoDeadlockAndReturns ==
    /\ [](\A c \in Callers :
            /\ epc[c] # "idle" =>
                  \/ ENABLED Proceeds(c)
                  \/ ENABLED Acquires(c)
                  \/ Waits(c)
            /\ Waits(c) =>
                  /\ c \notin ModelsReaders \cup BackendsReaders
                  /\ \A d \in WaitsFor(c) :
                        ecall[d].op = "infer" /\ ENABLED Proceeds(d)
            /\ BackendsReaders \subseteq ModelsReaders
            /\ c \in ModelsReaders =>
                  ecall[c].steps[1] = "models")
    /\ \A c \in Callers : (epc[c] # "idle") ~> (epc[c] = "idle")

\* A load_model waits for the write guard of the model table while the
\* other caller is in Backend::infer with both read guards.
C34_Witness ==
    /\ epc["c1"] = "install_model"
    /\ epc["c2"] = "infer"
    /\ Waits("c1")
    /\ WaitsFor("c1") = {"c2"}
    /\ ~ENABLED Acquires("c1")

====
